---- MODULE Spec2Model ----
(***************************************************************************)
(* Rectangle-rule integration (lab_work_10): the sequential kernel         *)
(* integrate (iteration1), and the thread-pool / process-pool backends     *)
(* integrate_threaded (iteration2) and integrate_processed (iteration3).   *)
(*                                                                         *)
(* Python floats are modelled as exact rationals <<num, den>> in lowest    *)
(* terms with den > 0: the model speaks about the values "in exact         *)
(* arithmetic"; float rounding is outside it.  Integrands range over       *)
(* module-level (hence picklable) functions.                               *)
(***************************************************************************)
EXTENDS Integers, Sequences, FiniteSets, TLC

\* ---------------------------------------------------------------- bounds
MaxBound == 1      \* a, b range over -1 .. MaxBound
MaxIter  == 4      \* n_iter ranges over 0 .. MaxIter
MaxJobs  == 3      \* n_jobs ranges over -1 .. MaxJobs
MaxCalls == 2      \* successive calls of one function with the same arguments

\* ------------------------------------------------------------------ state
VARIABLES
  backend,   \* which entry point the caller invokes
  f, a, b, n_iter, n_jobs,   \* the arguments of the call
  pc,        \* position of the caller
  executor,  \* the pool created by the call: [max_workers |-> n] or NoExecutor
  budget,    \* n_iter // n_jobs bound into spawn
  step,      \* (b - a) / n_jobs
  i,         \* index of the submission loop
  fs,        \* the futures, in submission order
  yielded,   \* indices of the futures as_completed has already yielded
  results,   \* the list built from f.result()
  outcome,   \* what the call delivered to its caller
  evals      \* points at which the sequential call evaluated f

\* the frame of integrate, statement by statement, over successive calls
VARIABLES
  kpc,       \* position inside integrate: "call", "loop" or "done"
  kcall,     \* number of calls of integrate completed so far
  ki,        \* the loop variable i
  kstep,     \* the local step
  kacc,      \* the local acc
  kpts,      \* points at which the current call has evaluated f
  kret       \* what each completed call delivered, in call order

poolVars == <<backend, f, a, b, n_iter, n_jobs, pc, executor, budget, step, i,
              fs, yielded, results, outcome, evals>>
kernelVars == <<kpc, kcall, ki, kstep, kacc, kpts, kret>>

\* the benchmark harnesses of lab_work_10
VARIABLES
  harness,   \* which harness function runs
  hpc,       \* its position: "start", "loop", "done" or "raised"
  hjob,      \* index of the current configuration in its sweep list
  called,    \* the backend calls made so far, with how each ended
  printed,   \* the lines written to standard output
  hraised    \* the exception that left the harness, if any

harnessVars == <<harness, hpc, hjob, called, printed, hraised>>

\* integrate with its accumulator held in twelve exact decimals
VARIABLES
  wpc,       \* position inside integrate: "call", "loop" or "done"
  wi,        \* the loop variable i
  wstep,     \* the local step
  wacc,      \* the local acc, as <<millionths, millionths of a millionth>>
  wret       \* what the call delivered

wideVars == <<wpc, wi, wstep, wacc, wret>>

\* lab_work_2: guess_number
VARIABLES
  method, number, numbers_list,   \* the arguments; the list is the caller's
  passed,    \* the list as it was when the call was made
  gpc,       \* position: "call", "binary", "linear" or "done"
  attempts,  \* the local attempts
  left, right,   \* the bounds of _binary_search, counted from 0
  pos,       \* how many elements the for loop of _linear_search has taken
  gret       \* what the call delivered

searchVars == <<method, number, numbers_list, passed, gpc, attempts, left,
                right, pos, gret>>

\* lab_work_5: gen_bin_tree
VARIABLES
  height, root, left_branch, right_branch,   \* the arguments
  tpc,       \* position: "call", "loop" or "done"
  nodes,     \* the dicts created so far; a child is an index here, 0 is None
  queue,     \* the deque of <<node, level>>
  tret       \* what the call returned: "None" or "tree" (the dict nodes[1])

treeVars == <<height, root, left_branch, right_branch, tpc, nodes, queue, tret>>

\* lab_work_9: CurrencyRatesCRUD over one sqlite3 connection
VARIABLES
  foreign_keys,     \* the connection's PRAGMA foreign_keys
  user,             \* ids of the rows of table user
  currency,         \* ids of the rows of table currency
  user_currency,    \* the rows of table user_currency
  sqlite_sequence,  \* AUTOINCREMENT: the largest id each table has used
  dbret             \* what the last operation returned or raised

dbVars == <<foreign_keys, user, currency, user_currency, sqlite_sequence, dbret>>

\* lab_work_7: a function wrapped by @logger(handle=stream)
VARIABLES
  inner_func,   \* the wrapped function
  closed,       \* whether the stream has been closed
  lpc,          \* position of wrapper: "idle", "try" or "done"
  largs,        \* the argument of the call under way
  stream,       \* the lines written to the stream
  runs,         \* how many times inner_func has been entered
  delivered     \* the calls made so far: argument and what the caller got

logVars == <<inner_func, closed, lpc, largs, stream, runs, delivered>>

\* a caller that calls a pool backend again with the same arguments
VARIABLES
  ncalls,    \* calls completed before the one under way
  earlier    \* what each completed call delivered

againVars == <<ncalls, earlier>>

appVars == <<dbVars, logVars, againVars>>

vars == <<poolVars, kernelVars, harnessVars, wideVars, searchVars, treeVars,
          appVars>>

\* what the actions of one program leave alone: the state of the others
labVars == <<searchVars, treeVars>>
nonPool == <<kernelVars, harnessVars, wideVars, labVars, appVars>>
nonKernel == <<poolVars, harnessVars, wideVars, labVars, appVars>>
nonHarness == <<poolVars, kernelVars, wideVars, labVars, appVars>>
nonWide == <<poolVars, kernelVars, harnessVars, labVars, appVars>>
nonSearch == <<poolVars, kernelVars, harnessVars, wideVars, treeVars, appVars>>
nonTree == <<poolVars, kernelVars, harnessVars, wideVars, searchVars, appVars>>
lab10Vars == <<poolVars, kernelVars, harnessVars, wideVars>>
nonDb == <<lab10Vars, labVars, logVars, againVars>>
nonLog == <<lab10Vars, labVars, dbVars, againVars>>
nonAgain == <<kernelVars, harnessVars, wideVars, labVars, dbVars, logVars>>

args == <<backend, f, a, b, n_iter, n_jobs>>

\* ------------------------------------------------- exact float arithmetic
Abs(x) == IF x < 0 THEN -x ELSE x

RECURSIVE GCD(_, _)
GCD(x, y) == IF y = 0 THEN x ELSE GCD(y, x % y)

\* the rational n/d (d # 0) in lowest terms with a positive denominator
Norm(n, d) ==
  LET g == GCD(Abs(n), Abs(d))
      s == IF d < 0 THEN -1 ELSE 1
  IN  <<s * (n \div g), Abs(d) \div g>>

Rat(k) == <<k, 1>>
Zero == Rat(0)

RAdd(x, y) == Norm(x[1] * y[2] + y[1] * x[2], x[2] * y[2])
RSub(x, y) == Norm(x[1] * y[2] - y[1] * x[2], x[2] * y[2])
RMul(x, y) == Norm(x[1] * y[1], x[2] * y[2])
RNeg(x)    == <<-x[1], x[2]>>
RLe(x, y)  == x[1] * y[2] <= y[1] * x[2]
RAbs(x)    == <<Abs(x[1]), x[2]>>

\* x / y: Python raises ZeroDivisionError when y == 0 (int or float)
Ok(v)      == [kind |-> "ok",  value |-> v,    type |-> "none"]
Raise(t)   == [kind |-> "exc", value |-> Zero, type |-> t]
\* variant: IEEE-style division that yields a number for a zero divisor
RDiv_silent(x, y) == IF y[1] = 0 THEN Ok(Zero)
                     ELSE Ok(Norm(x[1] * y[2], x[2] * y[1]))
RDiv(x, y) == IF y[1] = 0 THEN Raise("ZeroDivisionError")
              ELSE Ok(Norm(x[1] * y[2], x[2] * y[1]))

\* ------------------------------------------------------------ integrands
\* one: x -> 1.0; ident: x -> x; square: x -> x**2; recip: x -> 1/x
Functions == {"one", "ident", "square", "recip"}

Apply(g, x) ==
  CASE g = "one"    -> Ok(Rat(1))
    [] g = "ident"  -> Ok(x)
    [] g = "square" -> Ok(RMul(x, x))
    [] g = "recip"  -> RDiv(Rat(1), x)

\* ------------------------------------------------- iteration1.integrate
\* the loop "for i in range(n_iter): acc += f(a + i * step) * step";
\* evals is the sequence of points f has been called at so far
RECURSIVE RectLoop(_, _, _, _, _, _, _)
RectLoop(g, lo, st, n, k, acc, pts) ==
  IF k >= n
  THEN [kind |-> "ok", value |-> acc, type |-> "none", evals |-> pts]
  ELSE LET x == RAdd(lo, RMul(Rat(k), st))
           y == Apply(g, x)
       IN  IF y.kind = "exc"
           THEN [kind |-> "exc", value |-> Zero, type |-> y.type,
                 evals |-> Append(pts, x)]
           ELSE RectLoop(g, lo, st, n, k + 1,
                         RAdd(acc, RMul(y.value, st)), Append(pts, x))

\* variant: right-aligned sampling, f(a + (i + 1) * step)
integrate_right(g, lo, hi, n) ==
  LET st == RDiv(RSub(hi, lo), Rat(n))
  IN  IF st.kind = "exc"
      THEN [kind |-> "exc", value |-> Zero, type |-> st.type, evals |-> <<>>]
      ELSE RectLoop(g, RAdd(lo, st.value), st.value, n, 0, Zero, <<>>)

\* variant: "if n_iter == 0: return 0.0" in front of the division
integrate_guarded(g, lo, hi, n) ==
  IF n = 0
  THEN [kind |-> "ok", value |-> Zero, type |-> "none", evals |-> <<>>]
  ELSE RectLoop(g, lo, RDiv(RSub(hi, lo), Rat(n)).value, n, 0, Zero, <<>>)

\* variant: step = abs(b - a) / n_iter
integrate_absstep(g, lo, hi, n) ==
  LET st == RDiv(RAbs(RSub(hi, lo)), Rat(n))
  IN  IF st.kind = "exc"
      THEN [kind |-> "exc", value |-> Zero, type |-> st.type, evals |-> <<>>]
      ELSE RectLoop(g, lo, st.value, n, 0, Zero, <<>>)

\* acc = 0.0; step = (b - a) / n_iter; the loop; return acc
integrate(g, lo, hi, n) ==
  LET st == RDiv(RSub(hi, lo), Rat(n))
  IN  IF st.kind = "exc"
      THEN [kind |-> "exc", value |-> Zero, type |-> st.type, evals |-> <<>>]
      ELSE RectLoop(g, lo, st.value, n, 0, Zero, <<>>)

\* ------------------------------------------------------------ call state
Backends == {"integrate", "integrate_threaded", "integrate_processed"}
Parallel == {"integrate_threaded", "integrate_processed"}

NoExecutor == [max_workers |-> 0]
NoOutcome  == [kind |-> "none", value |-> Zero, type |-> "none"]

\* no call of integrate is being traced statement by statement
KernelIdle ==
  /\ kpc = "idle" /\ kcall = 0 /\ ki = 0 /\ kstep = Zero /\ kacc = Zero
  /\ kpts = <<>> /\ kret = <<>>

\* no harness runs
HarnessIdle ==
  /\ harness = "none" /\ hpc = "idle" /\ hjob = 0 /\ called = <<>>
  /\ printed = <<>> /\ hraised = NoOutcome

\* no call of integrate is being traced in decimals
WideIdle ==
  /\ wpc = "idle" /\ wi = 0 /\ wstep = Zero /\ wacc = <<0, 0>>
  /\ wret = NoOutcome

\* guess_number is not called
SearchIdle ==
  /\ method = "none" /\ number = 0 /\ numbers_list = <<>> /\ passed = <<>>
  /\ gpc = "idle" /\ attempts = 0 /\ left = 0 /\ right = 0 /\ pos = 0
  /\ gret = NoOutcome

\* gen_bin_tree is not called
TreeIdle ==
  /\ height = 0 /\ root = 0 /\ left_branch = "none" /\ right_branch = "none"
  /\ tpc = "idle" /\ nodes = <<>> /\ queue = <<>> /\ tret = "pending"

\* no connection is open
DbIdle ==
  /\ foreign_keys = FALSE /\ user = {} /\ currency = {} /\ user_currency = {}
  /\ sqlite_sequence = <<>> /\ dbret = [kind |-> "none", id |-> 0, ok |-> FALSE]

\* nothing is wrapped
LogIdle ==
  /\ inner_func = "none" /\ closed = FALSE /\ lpc = "off" /\ largs = 0
  /\ stream = <<>> /\ runs = 0 /\ delivered = <<>>

\* no call has been completed
FirstCall == ncalls = 0 /\ earlier = <<>>

AppsIdle == DbIdle /\ LogIdle /\ FirstCall
LabsIdle == SearchIdle /\ TreeIdle /\ AppsIdle
NonPoolIdle == KernelIdle /\ HarnessIdle /\ WideIdle /\ LabsIdle
NonKernelIdle == HarnessIdle /\ WideIdle /\ LabsIdle

\* no pool call is under way
PoolIdle ==
  /\ pc = "start" /\ executor = NoExecutor /\ budget = 0 /\ step = Zero
  /\ i = 0 /\ fs = <<>> /\ yielded = {} /\ results = <<>>
  /\ outcome = NoOutcome /\ evals = <<>>

\* the caller of the integrate family is not part of the run
PoolParked ==
  /\ backend = "integrate" /\ f = "one" /\ a = Zero /\ b = Zero
  /\ n_iter = 0 /\ n_jobs = 1 /\ PoolIdle

Init ==
  /\ NonPoolIdle
  /\ backend \in Backends
  /\ f \in Functions
  /\ a \in {Rat(k) : k \in -1 .. MaxBound}
  /\ b \in {Rat(k) : k \in -1 .. MaxBound}
  /\ n_iter \in 0 .. MaxIter
  /\ n_jobs \in -1 .. MaxJobs
  /\ pc = "start"
  /\ executor = NoExecutor
  /\ budget = 0
  /\ step = Zero
  /\ i = 0
  /\ fs = <<>>
  /\ yielded = {}
  /\ results = <<>>
  /\ outcome = NoOutcome
  /\ evals = <<>>

\* ------------------------------------------------ the sequential backend
CallIntegrate ==
  /\ backend = "integrate"
  /\ pc = "start"
  /\ LET r == integrate(f, a, b, n_iter)
     IN  /\ outcome' = [kind |-> r.kind, value |-> r.value, type |-> r.type]
         /\ evals' = r.evals
         /\ pc' = IF r.kind = "ok" THEN "returned" ELSE "raised"
  /\ UNCHANGED <<args, executor, budget, step, i, fs, yielded, results>>
  /\ UNCHANGED nonPool

\* ------------------------------------------- concurrent.futures executors
\* ThreadPoolExecutor(max_workers=n) / ProcessPoolExecutor(max_workers=n):
\* both constructors raise ValueError when max_workers <= 0
NewExecutor_unchecked(max_workers) ==
  [kind |-> "ok", type |-> "none", max_workers |-> max_workers]

NewExecutor(max_workers) ==
  IF max_workers <= 0
  THEN [kind |-> "exc", type |-> "ValueError", max_workers |-> 0]
  ELSE [kind |-> "ok",  type |-> "none",       max_workers |-> max_workers]

\* variants: ceiling division, and division rounded to nearest
CeilDiv(n, d) ==
  IF d = 0 THEN [kind |-> "exc", type |-> "ZeroDivisionError", q |-> 0]
  ELSE [kind |-> "ok", type |-> "none",
        q |-> IF d > 0 THEN (n + d - 1) \div d ELSE (-n) \div (-d)]
RoundDiv(n, d) ==
  IF d = 0 THEN [kind |-> "exc", type |-> "ZeroDivisionError", q |-> 0]
  ELSE [kind |-> "ok", type |-> "none",
        q |-> IF d > 0 THEN (2 * n + d) \div (2 * d) ELSE (-n) \div (-d)]

\* Python's n // d on ints: ZeroDivisionError for d == 0, floor otherwise
FloorDiv(n, d) ==
  IF d = 0 THEN [kind |-> "exc", type |-> "ZeroDivisionError", q |-> 0]
  ELSE [kind |-> "ok", type |-> "none",
        q |-> IF d > 0 THEN n \div d ELSE (-n) \div (-d)]

\* variant: b_i = a_i + (i + 1) * step
PartitionBounds_drift(lo, st, k) ==
  [a_i |-> RAdd(lo, RMul(Rat(k), st)),
   b_i |-> RAdd(RAdd(lo, RMul(Rat(k), st)), RMul(Rat(k + 1), st))]

\* a_i = a + i * step;  b_i = a + (i + 1) * step
PartitionBounds(lo, st, k) ==
  [a_i |-> RAdd(lo, RMul(Rat(k), st)), b_i |-> RAdd(lo, RMul(Rat(k + 1), st))]

\* variant: every partition is given one sample more than n_iter // n_jobs
NewFuture_extra(bounds, n) ==
  [a_i |-> bounds.a_i, b_i |-> bounds.b_i, n_iter |-> n + 1,
   state |-> "PENDING", kind |-> "none", value |-> Zero, type |-> "none",
   evals |-> <<>>]

\* executor.submit(integrate, f, a_i, b_i, n_iter=budget): a pending future
NewFuture(bounds, n) ==
  [a_i |-> bounds.a_i, b_i |-> bounds.b_i, n_iter |-> n, state |-> "PENDING",
   kind |-> "none", value |-> Zero, type |-> "none", evals |-> <<>>]

\* variant: a failed future counts as 0.0
FutureResult_swallow(fut) ==
  IF fut.kind = "exc" THEN Ok(Zero)
  ELSE [kind |-> fut.kind, value |-> fut.value, type |-> fut.type]

\* variant: a failure is re-raised wrapped in a WorkerError
FutureResult_wrapped(fut) ==
  IF fut.kind = "exc" THEN Raise("WorkerError")
  ELSE [kind |-> fut.kind, value |-> fut.value, type |-> fut.type]

\* Future.result() of a finished future: its value, or its exception re-raised
FutureResult(fut) == [kind |-> fut.kind, value |-> fut.value, type |-> fut.type]

\* sum(results): left fold from 0
RECURSIVE SumFrom(_, _, _)
SumFrom(seq, k, acc) ==
  IF k > Len(seq) THEN acc ELSE SumFrom(seq, k + 1, RAdd(acc, seq[k]))
\* variant: the fold starts at the second element
Sum_skipfirst(seq) == SumFrom(seq, 2, Zero)
\* variant: sum(set(results)), equal partial values are added once
RECURSIVE SumDistinct(_, _, _)
SumDistinct(seq, k, acc) ==
  IF k > Len(seq) THEN acc
  ELSE SumDistinct(seq, k + 1,
         IF \E j \in 1 .. k - 1 : seq[j] = seq[k] THEN acc
         ELSE RAdd(acc, seq[k]))
Sum_set(seq) == SumDistinct(seq, 1, Zero)
Sum(seq) == SumFrom(seq, 1, Zero)

Running == {k \in 1 .. Len(fs) : fs[k].state = "RUNNING"}
Finished == {k \in 1 .. Len(fs) : fs[k].state = "FINISHED"}

\* ------------------------------------------------- the parallel backends
\* executor = ftres.ThreadPoolExecutor(max_workers=n_jobs)   (ProcessPool...)
CreateExecutor ==
  /\ backend \in Parallel
  /\ pc = "start"
  /\ LET e == NewExecutor(n_jobs)
     IN  IF e.kind = "exc"
         THEN /\ pc' = "raised"
              /\ outcome' = Raise(e.type)
              /\ UNCHANGED executor
         ELSE /\ pc' = "plan"
              /\ executor' = [max_workers |-> e.max_workers]
              /\ UNCHANGED outcome
  /\ UNCHANGED <<args, budget, step, i, fs, yielded, results, evals>>
  /\ UNCHANGED nonPool

\* spawn = partial(executor.submit, integrate, f, n_iter=n_iter // n_jobs)
\* step = (b - a) / n_jobs;  fs = []
Plan ==
  /\ pc = "plan"
  /\ LET q  == FloorDiv(n_iter, n_jobs)
         st == RDiv(RSub(b, a), Rat(n_jobs))
     IN  IF q.kind = "exc" \/ st.kind = "exc"
         THEN /\ pc' = "raised"
              /\ outcome' = Raise("ZeroDivisionError")
              /\ UNCHANGED <<budget, step>>
         ELSE /\ budget' = q.q
              /\ step' = st.value
              /\ pc' = IF n_jobs > 0 THEN "submit" ELSE "collect"
              /\ UNCHANGED outcome
  /\ i' = 0
  /\ fs' = <<>>
  /\ UNCHANGED <<args, executor, yielded, results, evals>>
  /\ UNCHANGED nonPool

\* one pass of "for i in range(n_jobs)": fs.append(spawn(a_i, b_i))
Submit ==
  /\ pc = "submit"
  /\ fs' = Append(fs, NewFuture(PartitionBounds(a, step, i), budget))
  /\ i' = i + 1
  /\ pc' = IF i + 1 < n_jobs THEN "submit" ELSE "collect"
  /\ UNCHANGED <<args, executor, budget, step, yielded, results, outcome, evals>>
  /\ UNCHANGED nonPool

\* a pool worker takes a pending work item; at most max_workers run at once
Start(k) ==
  /\ k \in 1 .. Len(fs)
  /\ fs[k].state = "PENDING"
  /\ Cardinality(Running) < executor.max_workers
  /\ fs' = [fs EXCEPT ![k].state = "RUNNING"]
  /\ UNCHANGED <<args, pc, executor, budget, step, i, yielded, results,
                 outcome, evals>>
  /\ UNCHANGED nonPool

\* variant: the worker adds its value to the caller's list itself
Finish_shared(k) ==
  /\ k \in 1 .. Len(fs)
  /\ fs[k].state = "RUNNING"
  /\ LET r == integrate(f, fs[k].a_i, fs[k].b_i, fs[k].n_iter)
     IN  /\ fs' = [fs EXCEPT ![k].state = "FINISHED", ![k].kind = r.kind,
                             ![k].value = r.value, ![k].type = r.type,
                             ![k].evals = r.evals]
         /\ results' = IF pc = "collect" /\ r.kind = "ok" /\ k \notin yielded
                       THEN Append(results, r.value) ELSE results
         /\ yielded' = IF pc = "collect" /\ r.kind = "ok"
                       THEN yielded \cup {k} ELSE yielded
  /\ UNCHANGED <<args, pc, executor, budget, step, i, outcome, evals>>
  /\ UNCHANGED nonPool

\* the worker runs integrate(f, a_i, b_i, n_iter=budget) and completes the
\* future with the value or with the exception
Finish(k) ==
  /\ k \in 1 .. Len(fs)
  /\ fs[k].state = "RUNNING"
  /\ LET r == integrate(f, fs[k].a_i, fs[k].b_i, fs[k].n_iter)
     IN  fs' = [fs EXCEPT ![k].state = "FINISHED", ![k].kind = r.kind,
                          ![k].value = r.value, ![k].type = r.type,
                          ![k].evals = r.evals]
  /\ UNCHANGED <<args, pc, executor, budget, step, i, yielded, results,
                 outcome, evals>>
  /\ UNCHANGED nonPool

\* variant: a failure cancels the work items that have not started
Collect_cancel(k) ==
  /\ pc = "collect"
  /\ k \in Finished \ yielded
  /\ yielded' = yielded \cup {k}
  /\ LET r == FutureResult(fs[k])
     IN  IF r.kind = "exc"
         THEN /\ pc' = "raised"
              /\ outcome' = Raise(r.type)
              /\ fs' = [j \in 1 .. Len(fs) |->
                          IF fs[j].state = "PENDING"
                          THEN [fs[j] EXCEPT !.state = "CANCELLED"]
                          ELSE fs[j]]
              /\ UNCHANGED results
         ELSE /\ results' = Append(results, r.value)
              /\ UNCHANGED <<pc, outcome, fs>>
  /\ UNCHANGED <<args, executor, budget, step, i, evals>>
  /\ UNCHANGED nonPool

\* variant: as_completed may yield a finished future again
Collect_dup(k) ==
  /\ pc = "collect"
  /\ k \in Finished
  /\ Len(results) <= Len(fs)
  /\ yielded' = yielded \cup {k}
  /\ LET r == FutureResult(fs[k])
     IN  IF r.kind = "exc"
         THEN /\ pc' = "raised"
              /\ outcome' = Raise(r.type)
              /\ UNCHANGED results
         ELSE /\ results' = Append(results, r.value)
              /\ UNCHANGED <<pc, outcome>>
  /\ UNCHANGED <<args, executor, budget, step, i, fs, evals>>
  /\ UNCHANGED nonPool

\* one pass of "[f.result() for f in ftres.as_completed(fs)]": as_completed
\* yields some finished future it has not yielded yet
Collect(k) ==
  /\ pc = "collect"
  /\ k \in Finished \ yielded
  /\ yielded' = yielded \cup {k}
  /\ LET r == FutureResult(fs[k])
     IN  IF r.kind = "exc"
         THEN /\ pc' = "raised"
              /\ outcome' = Raise(r.type)
              /\ UNCHANGED results
         ELSE /\ results' = Append(results, r.value)
              /\ UNCHANGED <<pc, outcome>>
  /\ UNCHANGED <<args, executor, budget, step, i, fs, evals>>
  /\ UNCHANGED nonPool

\* variant: return as soon as one result is in (wait for the first only)
Return_early ==
  /\ pc = "collect"
  /\ results # <<>>
  /\ pc' = "returned"
  /\ outcome' = Ok(SumFrom(results, 1, Zero))
  /\ UNCHANGED <<args, executor, budget, step, i, fs, yielded, results, evals>>
  /\ UNCHANGED nonPool

\* as_completed is exhausted: return sum(results)
Return ==
  /\ pc = "collect"
  /\ yielded = 1 .. Len(fs)
  /\ pc' = "returned"
  /\ outcome' = Ok(Sum(results))
  /\ UNCHANGED <<args, executor, budget, step, i, fs, yielded, results, evals>>
  /\ UNCHANGED nonPool

Next ==
  \/ CallIntegrate
  \/ CreateExecutor
  \/ Plan
  \/ Submit
  \/ \E k \in 1 .. MaxJobs : Start(k)
  \/ \E k \in 1 .. MaxJobs : Finish(k)
  \/ \E k \in 1 .. MaxJobs : Collect(k)
  \/ Return

Spec == Init /\ [][Next]_vars

\* ------------------------------ a pool backend called more than once
InitAgain ==
  /\ NonPoolIdle
  /\ backend \in Parallel
  /\ f \in Functions
  /\ a = Rat(0)
  /\ b \in {Rat(k) : k \in 0 .. MaxBound}
  /\ n_iter \in 0 .. MaxIter
  /\ n_jobs \in -1 .. MaxJobs
  /\ PoolIdle

\* variant: fs is a module-level list that outlives the call
CallAgain_shared ==
  /\ pc \in {"returned", "raised"}
  /\ ncalls + 1 < MaxCalls
  /\ earlier' = Append(earlier, outcome)
  /\ ncalls' = ncalls + 1
  /\ pc' = "start" /\ executor' = NoExecutor /\ budget' = 0 /\ step' = Zero
  /\ i' = 0 /\ yielded' = {} /\ results' = <<>>
  /\ outcome' = NoOutcome /\ evals' = <<>>
  /\ UNCHANGED <<args, fs, nonAgain>>
\* The call is over and the caller makes the same call again.  executor,
\* spawn, step, fs and results are locals of integrate_threaded /
\* integrate_processed and the module has no global: the new call starts
\* with none of them.
CallAgain ==
  /\ pc \in {"returned", "raised"}
  /\ ncalls + 1 < MaxCalls
  /\ earlier' = Append(earlier, outcome)
  /\ ncalls' = ncalls + 1
  /\ pc' = "start" /\ executor' = NoExecutor /\ budget' = 0 /\ step' = Zero
  /\ i' = 0 /\ fs' = <<>> /\ yielded' = {} /\ results' = <<>>
  /\ outcome' = NoOutcome /\ evals' = <<>>
  /\ UNCHANGED <<args, nonAgain>>

NextAgain ==
  \/ CreateExecutor
  \/ Plan
  \/ Submit
  \/ \E k \in 1 .. MaxJobs : Start(k)
  \/ \E k \in 1 .. MaxJobs : Finish(k)
  \/ \E k \in 1 .. MaxJobs : Collect(k)
  \/ Return
  \/ CallAgain

AgainSpec == InitAgain /\ [][NextAgain]_vars

\* ------------------------------ a pool backend given a hanging integrand
\* integrands that loop forever on x >= 1/2 and behave as one / recip below
Hanging == {"one_spin", "recip_spin"}
Base(g) == IF g = "one_spin" THEN "one" ELSE "recip"
Spins(g, x) == g \in Hanging /\ RLe(<<1, 2>>, x)

\* integrate(f, a_i, b_i, n_iter=budget) in a worker never returns when
\* the loop reaches a point at which f spins before a point at which f
\* raises
Stalls(fut) ==
  LET r == integrate(Base(f), fut.a_i, fut.b_i, fut.n_iter)
  IN  \E j \in 1 .. Len(r.evals) : Spins(f, r.evals[j])

HungPartitions == {k \in 1 .. Len(fs) : Stalls(fs[k])}

InitHang ==
  /\ NonPoolIdle
  /\ backend \in Parallel
  /\ f \in Hanging
  /\ a = Rat(0)
  /\ b \in {Rat(k) : k \in 0 .. MaxBound}
  /\ n_iter \in 0 .. MaxIter
  /\ n_jobs \in -1 .. MaxJobs
  /\ PoolIdle

\* variant: the pool gives up on a worker and fails its future
WorkerDone_timeout(k) ==
  /\ k \in 1 .. Len(fs)
  /\ fs[k].state = "RUNNING"
  /\ LET r == IF Stalls(fs[k])
              THEN [kind |-> "exc", value |-> Zero, type |-> "TimeoutError",
                    evals |-> <<>>]
              ELSE integrate(Base(f), fs[k].a_i, fs[k].b_i, fs[k].n_iter)
     IN  fs' = [fs EXCEPT ![k].state = "FINISHED", ![k].kind = r.kind,
                          ![k].value = r.value, ![k].type = r.type,
                          ![k].evals = r.evals]
  /\ UNCHANGED <<args, pc, executor, budget, step, i, yielded, results,
                 outcome, evals>>
  /\ UNCHANGED nonPool
\* the worker completes its future when integrate returns or raises; a
\* worker whose integrate never returns stays RUNNING: nothing in the
\* backend sets a timeout or cancels a future
WorkerDone(k) ==
  /\ k \in 1 .. Len(fs)
  /\ fs[k].state = "RUNNING"
  /\ ~Stalls(fs[k])
  /\ LET r == integrate(Base(f), fs[k].a_i, fs[k].b_i, fs[k].n_iter)
     IN  fs' = [fs EXCEPT ![k].state = "FINISHED", ![k].kind = r.kind,
                          ![k].value = r.value, ![k].type = r.type,
                          ![k].evals = r.evals]
  /\ UNCHANGED <<args, pc, executor, budget, step, i, yielded, results,
                 outcome, evals>>
  /\ UNCHANGED nonPool

NextHang ==
  \/ CreateExecutor
  \/ Plan
  \/ Submit
  \/ \E k \in 1 .. MaxJobs : Start(k)
  \/ \E k \in 1 .. MaxJobs : WorkerDone(k)
  \/ \E k \in 1 .. MaxJobs : Collect(k)
  \/ Return

HangSpec == InitHang /\ [][NextHang]_vars

\* ------------------------------ iteration5: integrate_nogil_threaded_sin
\* The compiled kernel ng.integrate_nogil_sin is not among the sources: the
\* value it returns is left open, and with n_iter = 0 it may divide by zero.
KernelValues == {Rat(1), Rat(2)}
NgKernel(n) ==
  {Ok(v) : v \in KernelValues}
    \cup (IF n = 0 THEN {Raise("ZeroDivisionError")} ELSE {})

InitNogil ==
  /\ NonPoolIdle
  /\ backend = "integrate_nogil_threaded_sin"
  /\ f = "sin"
  /\ a = Rat(0)
  /\ b \in {Rat(k) : k \in 0 .. MaxBound}
  /\ n_iter \in 0 .. MaxIter
  /\ n_jobs \in -1 .. MaxJobs
  /\ PoolIdle

\* executor = ftres.ThreadPoolExecutor(max_workers=n_jobs)
NgCreateExecutor ==
  /\ backend = "integrate_nogil_threaded_sin"
  /\ pc = "start"
  /\ LET e == NewExecutor(n_jobs)
     IN  IF e.kind = "exc"
         THEN /\ pc' = "raised"
              /\ outcome' = Raise(e.type)
              /\ UNCHANGED executor
         ELSE /\ pc' = "plan"
              /\ executor' = [max_workers |-> e.max_workers]
              /\ UNCHANGED outcome
  /\ UNCHANGED <<args, budget, step, i, fs, yielded, results, evals>>
  /\ UNCHANGED nonPool

\* spawn = partial(executor.submit, ng.integrate_nogil_sin,
\*                 n_iter=n_iter // n_jobs);  step = (b - a) / n_jobs;  fs = []
NgPlan ==
  /\ backend = "integrate_nogil_threaded_sin"
  /\ pc = "plan"
  /\ LET q  == FloorDiv(n_iter, n_jobs)
         st == RDiv(RSub(b, a), Rat(n_jobs))
     IN  IF q.kind = "exc" \/ st.kind = "exc"
         THEN /\ pc' = "raised"
              /\ outcome' = Raise("ZeroDivisionError")
              /\ UNCHANGED <<budget, step>>
         ELSE /\ budget' = q.q
              /\ step' = st.value
              /\ pc' = "submit"
              /\ UNCHANGED outcome
  /\ i' = 0
  /\ fs' = <<>>
  /\ UNCHANGED <<args, executor, yielded, results, evals>>
  /\ UNCHANGED nonPool

\* variant: results is extended, not rebuilt, in each pass of the loop
NgSubmit_extend ==
  /\ backend = "integrate_nogil_threaded_sin"
  /\ pc = "submit"
  /\ fs' = Append(fs, NewFuture(PartitionBounds(a, step, i), budget))
  /\ yielded' = {}
  /\ pc' = "collect"
  /\ UNCHANGED <<args, executor, budget, step, i, results, outcome, evals>>
  /\ UNCHANGED nonPool
\* the first half of one pass of "for i in range(n_jobs)":
\* fs.append(spawn(a_i, b_i)), then a new list and a new as_completed(fs)
NgSubmit ==
  /\ backend = "integrate_nogil_threaded_sin"
  /\ pc = "submit"
  /\ fs' = Append(fs, NewFuture(PartitionBounds(a, step, i), budget))
  /\ yielded' = {}
  /\ results' = <<>>
  /\ pc' = "collect"
  /\ UNCHANGED <<args, executor, budget, step, i, outcome, evals>>
  /\ UNCHANGED nonPool

\* a pool thread takes a pending work item
NgStart(k) ==
  /\ backend = "integrate_nogil_threaded_sin"
  /\ Start(k)

\* the thread runs ng.integrate_nogil_sin(a_i, b_i, n_iter=budget)
NgFinish(k) ==
  /\ backend = "integrate_nogil_threaded_sin"
  /\ k \in 1 .. Len(fs)
  /\ fs[k].state = "RUNNING"
  /\ \E r \in NgKernel(fs[k].n_iter) :
       fs' = [fs EXCEPT ![k].state = "FINISHED", ![k].kind = r.kind,
                        ![k].value = r.value, ![k].type = r.type]
  /\ UNCHANGED <<args, pc, executor, budget, step, i, yielded, results,
                 outcome, evals>>
  /\ UNCHANGED nonPool

\* one pass of the comprehension on line 25
NgCollect(k) ==
  /\ backend = "integrate_nogil_threaded_sin"
  /\ Collect(k)

\* the comprehension is done: the loop goes on to the next i
NgLoop ==
  /\ backend = "integrate_nogil_threaded_sin"
  /\ pc = "collect"
  /\ yielded = 1 .. Len(fs)
  /\ i + 1 < n_jobs
  /\ i' = i + 1
  /\ pc' = "submit"
  /\ UNCHANGED <<args, executor, budget, step, fs, yielded, results, outcome,
                 evals>>
  /\ UNCHANGED nonPool

\* range(n_jobs) is exhausted: return sum(results)
NgReturn ==
  /\ backend = "integrate_nogil_threaded_sin"
  /\ pc = "collect"
  /\ yielded = 1 .. Len(fs)
  /\ i + 1 >= n_jobs
  /\ pc' = "returned"
  /\ outcome' = Ok(Sum(results))
  /\ UNCHANGED <<args, executor, budget, step, i, fs, yielded, results, evals>>
  /\ UNCHANGED nonPool

NextNogil ==
  \/ NgCreateExecutor
  \/ NgPlan
  \/ NgSubmit
  \/ \E k \in 1 .. MaxJobs : NgStart(k)
  \/ \E k \in 1 .. MaxJobs : NgFinish(k)
  \/ \E k \in 1 .. MaxJobs : NgCollect(k)
  \/ NgLoop
  \/ NgReturn

NogilSpec == InitNogil /\ [][NextNogil]_vars

\* ------------------------------ integrate, one statement at a time

InitSeq ==
  /\ backend = "integrate" /\ n_jobs = 1
  /\ f \in Functions
  /\ a \in {Rat(k) : k \in -1 .. MaxBound}
  /\ b \in {Rat(k) : k \in -1 .. MaxBound}
  /\ n_iter \in 0 .. MaxIter
  /\ PoolIdle /\ NonKernelIdle
  /\ kpc = "call" /\ kcall = 0 /\ ki = 0 /\ kstep = Zero /\ kacc = Zero
  /\ kpts = <<>> /\ kret = <<>>

\* the call is over: its result or exception goes to the caller, who calls
\* again with the same arguments until MaxCalls calls are done
Deliver(r) ==
  /\ kret' = Append(kret, r)
  /\ kcall' = kcall + 1
  /\ kpc' = IF kcall + 1 < MaxCalls THEN "call" ELSE "done"

\* variant: acc lives outside the function and is not reset on entry
KEnter_noreset ==
  /\ kpc = "call"
  /\ LET st == RDiv(RSub(b, a), Rat(n_iter))
     IN  IF st.kind = "exc"
         THEN Deliver(Raise(st.type)) /\ UNCHANGED <<ki, kstep, kacc, kpts>>
         ELSE /\ kstep' = st.value
              /\ ki' = 0
              /\ kpts' = <<>>
              /\ kpc' = "loop"
              /\ UNCHANGED <<kacc, kcall, kret>>
  /\ UNCHANGED nonKernel

\* acc = 0.0;  step = (b - a) / n_iter;  i = first value of range(n_iter)
KEnter ==
  /\ kpc = "call"
  /\ kacc' = Zero
  /\ LET st == RDiv(RSub(b, a), Rat(n_iter))
     IN  IF st.kind = "exc"
         THEN Deliver(Raise(st.type)) /\ UNCHANGED <<ki, kstep, kpts>>
         ELSE /\ kstep' = st.value
              /\ ki' = 0
              /\ kpts' = <<>>
              /\ kpc' = "loop"
              /\ UNCHANGED <<kcall, kret>>
  /\ UNCHANGED nonKernel

\* one pass of the loop: acc += f(a + i * step) * step
KIter ==
  /\ kpc = "loop"
  /\ ki < n_iter
  /\ LET x == RAdd(a, RMul(Rat(ki), kstep))
         y == Apply(f, x)
     IN  /\ kpts' = Append(kpts, x)
         /\ IF y.kind = "exc"
            THEN Deliver(Raise(y.type)) /\ UNCHANGED <<ki, kacc>>
            ELSE /\ kacc' = RAdd(kacc, RMul(y.value, kstep))
                 /\ ki' = ki + 1
                 /\ UNCHANGED <<kpc, kcall, kret>>
  /\ UNCHANGED <<kstep, nonKernel>>

\* range(n_iter) is exhausted: return acc
KReturn ==
  /\ kpc = "loop"
  /\ ki >= n_iter
  /\ Deliver(Ok(kacc))
  /\ UNCHANGED <<ki, kstep, kacc, kpts, nonKernel>>

NextSeq == KEnter \/ KIter \/ KReturn

SeqSpec == InitSeq /\ [][NextSeq]_vars

\* ------------------------------ the benchmark harnesses
MaxTicks == 1      \* elapsed times are 0 .. MaxTicks clock ticks

Harnesses == {"benchmark_threaded", "benchmark_processed",
              "compare_threads_processes", "benchmark"}

\* the n_jobs values each harness loops over; benchmark has three sections
\* in a row instead of a loop: one worker, then n_jobs=4 twice
Sweep(h) ==
  CASE h = "compare_threads_processes" -> <<2, 4, 6, 8>>
    [] h = "benchmark" -> <<1, 4, 4>>
    [] OTHER -> <<1, 2, 4, 6, 8>>

\* the two backends each section of benchmark times, in the order timed
Sections ==
  <<<<"integrate", "integrate_cython">>,
    <<"integrate_threaded", "integrate_cython_threaded">>,
    <<"integrate_processed", "integrate_cython_processed">>>>

\* A backend call made by a harness: its arguments are fixed and valid, so
\* it returns after some elapsed time unless the platform fails it (no
\* thread can be started, a worker process dies).
PlatformFailure(bk) ==
  IF bk \in {"integrate_threaded", "integrate_cython_threaded"}
  THEN "RuntimeError" ELSE "BrokenProcessPool"

BackendCall(bk) ==
  {[res |-> Ok(Zero), elapsed |-> Rat(t)] : t \in 0 .. MaxTicks}
    \cup {[res |-> Raise(PlatformFailure(bk)), elapsed |-> Zero]}

\* the sequential kernels start no thread and no process
Timed(bk) ==
  IF bk \in {"integrate", "integrate_cython"}
  THEN {r \in BackendCall(bk) : r.res.kind = "ok"}
  ELSE BackendCall(bk)

Line(kind, n, v) == [kind |-> kind, n_jobs |-> n, value |-> v]
Called(bk, n, r) == [backend |-> bk, n_jobs |-> n, ok |-> r.res.kind = "ok"]

InitSweep ==
  /\ PoolParked /\ KernelIdle /\ WideIdle /\ LabsIdle
  /\ harness \in Harnesses
  /\ hpc = "start" /\ hjob = 0 /\ called = <<>> /\ printed = <<>>
  /\ hraised = NoOutcome

\* the banner printed before the loop
HStart ==
  /\ hpc = "start"
  /\ printed' = CASE harness = "compare_threads_processes" ->
                       <<Line("banner", 0, Zero), Line("rule", 0, Zero)>>
                  [] harness = "benchmark" -> <<>>
                  [] OTHER -> <<Line("banner", 0, Zero)>>
  /\ hjob' = 1
  /\ hpc' = "loop"
  /\ UNCHANGED <<harness, called, hraised, nonHarness>>

\* one iteration of "for n_jobs in [1, 2, 4, 6, 8]": the timed call, then
\* the print; an exception of the call leaves timeit, the loop and the
\* function
TimedIter(h, bk) ==
  /\ harness = h /\ hpc = "loop" /\ hjob <= Len(Sweep(h))
  /\ \E r \in BackendCall(bk) :
       LET n == Sweep(h)[hjob] IN
       /\ called' = Append(called, Called(bk, n, r))
       /\ IF r.res.kind = "exc"
            THEN /\ hpc' = "raised"
                 /\ hraised' = r.res
                 /\ UNCHANGED <<hjob, printed>>
            ELSE /\ printed' = Append(printed, Line("time", n, r.elapsed))
                 /\ hjob' = hjob + 1
                 /\ UNCHANGED <<hpc, hraised>>
  /\ UNCHANGED <<harness, nonHarness>>

BenchmarkThreadedIter == TimedIter("benchmark_threaded", "integrate_threaded")
BenchmarkProcessedIter ==
  TimedIter("benchmark_processed", "integrate_processed")

\* one iteration of compare_threads_processes: the threaded call, the
\* process call, four prints of which the last divides the two times
CompareIter ==
  /\ harness = "compare_threads_processes" /\ hpc = "loop"
  /\ hjob <= Len(Sweep(harness))
  /\ \E rt \in BackendCall("integrate_threaded") :
     \E rp \in BackendCall("integrate_processed") :
       LET n       == Sweep(harness)[hjob]
           first   == Called("integrate_threaded", n, rt)
           second  == Called("integrate_processed", n, rp)
           speedup == RDiv(rt.elapsed, rp.elapsed)
           three   == printed \o <<Line("workers", n, Zero),
                                   Line("threads", n, rt.elapsed),
                                   Line("processes", n, rp.elapsed)>>
       IN
       IF rt.res.kind = "exc"
       THEN /\ called' = Append(called, first)
            /\ hpc' = "raised"
            /\ hraised' = rt.res
            /\ UNCHANGED <<hjob, printed>>
       ELSE /\ called' = called \o <<first, second>>
            /\ IF rp.res.kind = "exc"
                 THEN /\ hpc' = "raised"
                      /\ hraised' = rp.res
                      /\ UNCHANGED <<hjob, printed>>
                 ELSE IF speedup.kind = "exc"
                 THEN /\ printed' = three
                      /\ hpc' = "raised"
                      /\ hraised' = Raise(speedup.type)
                      /\ UNCHANGED hjob
                 ELSE /\ printed' = three \o <<Line("speedup", n, speedup.value),
                                                Line("rule", 0, Zero)>>
                      /\ hjob' = hjob + 1
                      /\ UNCHANGED <<hpc, hraised>>
  /\ UNCHANGED <<harness, nonHarness>>

\* variant: every section divides the Sequential time by the second time
SectionSpeedup_baseline(py, cy, seq) == RDiv(seq, cy)
\* f"{time_py/time_cy:.2f}x"
SectionSpeedup(py, cy, seq) == RDiv(py, cy)

\* one section of benchmark: heading and label, the Python call timed,
\* its time, the Cython label, the Cython call timed, its time and the
\* quotient of the two times; base is the time section 1 took for the
\* sequential Python integrate
BenchmarkSection ==
  /\ harness = "benchmark" /\ hpc = "loop" /\ hjob <= Len(Sections)
  /\ \E rpy \in Timed(Sections[hjob][1]) :
     \E rcy \in Timed(Sections[hjob][2]) :
       LET n       == Sweep(harness)[hjob]
           first   == Called(Sections[hjob][1], n, rpy)
           second  == Called(Sections[hjob][2], n, rcy)
           times   == {j \in 1 .. Len(printed) : printed[j].kind = "python"}
           base    == IF hjob = 1 THEN rpy.elapsed
                      ELSE printed[CHOOSE j \in times :
                                     \A m \in times : j <= m].value
           speedup == SectionSpeedup(rpy.elapsed, rcy.elapsed, base)
           head    == printed \o <<Line("banner", n, Zero),
                                   Line("label", n, Zero)>>
           mid     == head \o <<Line("python", n, rpy.elapsed),
                                Line("label", n, Zero)>>
       IN
       IF rpy.res.kind = "exc"
       THEN /\ called' = Append(called, first)
            /\ printed' = head
            /\ hpc' = "raised"
            /\ hraised' = rpy.res
            /\ UNCHANGED hjob
       ELSE /\ called' = called \o <<first, second>>
            /\ IF rcy.res.kind = "exc"
                 THEN /\ printed' = mid
                      /\ hpc' = "raised"
                      /\ hraised' = rcy.res
                      /\ UNCHANGED hjob
                 ELSE IF speedup.kind = "exc"
                 THEN /\ printed' = Append(mid, Line("cython", n, rcy.elapsed))
                      /\ hpc' = "raised"
                      /\ hraised' = Raise(speedup.type)
                      /\ UNCHANGED hjob
                 ELSE /\ printed' = mid \o <<Line("cython", n, rcy.elapsed),
                                              Line("speedup", n, speedup.value)>>
                      /\ hjob' = hjob + 1
                      /\ UNCHANGED <<hpc, hraised>>
  /\ UNCHANGED <<harness, nonHarness>>

\* the sweep list is exhausted: the harness function returns
HReturn ==
  /\ hpc = "loop" /\ hjob > Len(Sweep(harness))
  /\ hpc' = "done"
  /\ UNCHANGED <<harness, hjob, called, printed, hraised, nonHarness>>

NextSweep ==
  \/ HStart
  \/ BenchmarkThreadedIter
  \/ BenchmarkProcessedIter
  \/ CompareIter
  \/ BenchmarkSection
  \/ HReturn

SweepSpec == InitSweep /\ [][NextSweep]_vars

\* ------------------------------ integrate(x**2, 0, 1, n_iter=10_000)
\* The arguments of test_polynomial and of the doctest.  With them every
\* value the call computes has at most twelve decimals, so acc is kept as
\* <<hi, lo>> standing for hi / 10^6 + lo / 10^12 and nothing is rounded.
TestIter == 10000
Micro == 10 ^ 6

WZero == <<0, 0>>
WAdd(w, k) == <<w[1] + (w[2] + k) \div Micro, (w[2] + k) % Micro>>
WTimes(w, k) == <<w[1] * k + (w[2] * k) \div Micro, (w[2] * k) % Micro>>
WLe(v, w) == v[1] < w[1] \/ (v[1] = w[1] /\ v[2] <= w[2])

\* y * st in units of 10^-12, for y with a denominator dividing 10^8 and
\* st with a denominator dividing 10^4
Pico(y, st) == (y[1] * ((10 ^ 8) \div y[2])) * (st[1] * ((10 ^ 4) \div st[2]))

InitPoly ==
  /\ backend = "integrate" /\ n_jobs = 1
  /\ f = "square" /\ a = Rat(0) /\ b = Rat(1) /\ n_iter = TestIter
  /\ PoolIdle /\ KernelIdle /\ HarnessIdle /\ LabsIdle
  /\ wpc = "call" /\ wi = 0 /\ wstep = Zero /\ wacc = WZero
  /\ wret = NoOutcome

\* acc = 0.0; step = (b - a) / n_iter
WEnter ==
  /\ wpc = "call"
  /\ wacc' = WZero
  /\ LET st == RDiv(RSub(b, a), Rat(n_iter))
     IN  IF st.kind = "exc"
         THEN wret' = Raise(st.type) /\ wpc' = "done" /\ UNCHANGED <<wi, wstep>>
         ELSE /\ wstep' = st.value
              /\ wi' = 0
              /\ wpc' = "loop"
              /\ UNCHANGED wret
  /\ UNCHANGED nonWide

\* variant: the sample is taken at the right end of the rectangle
WIter_right ==
  /\ wpc = "loop"
  /\ wi < n_iter
  /\ LET x == RAdd(a, RMul(Rat(wi + 1), wstep))
         y == Apply(f, x)
     IN  /\ wacc' = WAdd(wacc, Pico(y.value, wstep))
         /\ wi' = wi + 1
         /\ UNCHANGED <<wpc, wret>>
  /\ UNCHANGED <<wstep, nonWide>>
\* one pass of the loop: acc += f(a + i * step) * step
WIter ==
  /\ wpc = "loop"
  /\ wi < n_iter
  /\ LET x == RAdd(a, RMul(Rat(wi), wstep))
         y == Apply(f, x)
     IN  IF y.kind = "exc"
         THEN wret' = Raise(y.type) /\ wpc' = "done" /\ UNCHANGED <<wi, wacc>>
         ELSE /\ wacc' = WAdd(wacc, Pico(y.value, wstep))
              /\ wi' = wi + 1
              /\ UNCHANGED <<wpc, wret>>
  /\ UNCHANGED <<wstep, nonWide>>

\* range(n_iter) is exhausted: return acc
WReturn ==
  /\ wpc = "loop"
  /\ wi >= n_iter
  /\ wret' = Ok(wacc)
  /\ wpc' = "done"
  /\ UNCHANGED <<wi, wstep, wacc, nonWide>>

NextPoly == WEnter \/ WIter \/ WReturn

PolySpec == InitPoly /\ [][NextPoly]_vars

\* ------------------------------ lab_work_2: guess_number
MaxLen == 4        \* longest list passed to guess_number
MaxVal == 3        \* list elements are 1 .. MaxVal

Methods == {"binary", "linear", "ternary"}
Supported == {"binary", "linear"}

Lists == UNION {[1 .. n -> 1 .. MaxVal] : n \in 0 .. MaxLen}

\* list.sort(): the elements in ascending order
RECURSIVE Insert(_, _)
Insert(x, s) ==
  IF s = <<>> THEN <<x>>
  ELSE IF x <= Head(s) THEN <<x>> \o s
  ELSE <<Head(s)>> \o Insert(x, Tail(s))

\* variant: the list is searched in the order it was passed
Sort_none(s) == s
RECURSIVE Sort(_)
Sort(s) == IF s = <<>> THEN <<>> ELSE Insert(Head(s), Sort(Tail(s)))

InitSearch ==
  /\ PoolParked /\ KernelIdle /\ HarnessIdle /\ WideIdle /\ TreeIdle
  /\ AppsIdle
  /\ method \in Methods
  /\ number \in 0 .. MaxVal + 1
  /\ numbers_list \in Lists
  /\ passed = numbers_list
  /\ gpc = "call" /\ attempts = 0 /\ left = 0 /\ right = 0 /\ pos = 0
  /\ gret = NoOutcome

\* guess_number up to the first loop test of the search it dispatches to
GuessNumber ==
  /\ gpc = "call"
  /\ IF method \notin Supported
     THEN /\ gret' = Raise("ValueError")
          /\ gpc' = "done"
          /\ UNCHANGED <<numbers_list, attempts, left, right, pos>>
     ELSE IF method = "binary"
     THEN /\ attempts' = 0
          /\ numbers_list' = Sort(numbers_list)
          /\ left' = 0
          /\ right' = Len(numbers_list) - 1
          /\ gpc' = "binary"
          /\ UNCHANGED <<pos, gret>>
     ELSE /\ attempts' = 0
          /\ pos' = 0
          /\ gpc' = "linear"
          /\ UNCHANGED <<numbers_list, left, right, gret>>
  /\ UNCHANGED <<method, number, passed, nonSearch>>

\* one pass of "while left <= right"
BinaryIter ==
  /\ gpc = "binary" /\ left <= right
  /\ attempts' = attempts + 1
  /\ LET mid   == (left + right) \div 2
         guess == numbers_list[mid + 1]
     IN  IF guess = number
         THEN /\ gret' = Ok(<<guess, attempts + 1>>)
              /\ gpc' = "done"
              /\ UNCHANGED <<left, right>>
         ELSE IF guess < number
         THEN left' = mid + 1 /\ UNCHANGED <<right, gpc, gret>>
         ELSE right' = mid - 1 /\ UNCHANGED <<left, gpc, gret>>
  /\ UNCHANGED <<method, number, numbers_list, passed, pos, nonSearch>>

\* the while loop ends without a hit
BinaryFail ==
  /\ gpc = "binary" /\ left > right
  /\ gret' = Raise("ValueError")
  /\ gpc' = "done"
  /\ UNCHANGED <<method, number, numbers_list, passed, attempts, left, right,
                 pos, nonSearch>>

\* one pass of "for num in numbers"
LinearIter ==
  /\ gpc = "linear" /\ pos < Len(numbers_list)
  /\ attempts' = attempts + 1
  /\ pos' = pos + 1
  /\ LET num == numbers_list[pos + 1]
     IN  IF number = num
         THEN gret' = Ok(<<num, attempts + 1>>) /\ gpc' = "done"
         ELSE UNCHANGED <<gpc, gret>>
  /\ UNCHANGED <<method, number, numbers_list, passed, left, right, nonSearch>>

\* the for loop ends without a hit
LinearFail ==
  /\ gpc = "linear" /\ pos >= Len(numbers_list)
  /\ gret' = Raise("ValueError")
  /\ gpc' = "done"
  /\ UNCHANGED <<method, number, numbers_list, passed, attempts, left, right,
                 pos, nonSearch>>

NextSearch ==
  \/ GuessNumber
  \/ BinaryIter
  \/ BinaryFail
  \/ LinearIter
  \/ LinearFail

SearchSpec == InitSearch /\ [][NextSearch]_vars

\* ------------------------------ lab_work_5: gen_bin_tree
MaxHeight == 3     \* largest height asked for
MaxRoot == 2       \* root values are 0 .. MaxRoot

\* the two default branch functions and one a caller may pass
Branches == {"square", "two_plus_square", "succ"}
Branch(g, x) ==
  IF g = "square" THEN x * x
  ELSE IF g = "two_plus_square" THEN 2 + x * x
  ELSE x + 1

\* {"value": v, "left": None, "right": None}
Dict(v) == [value |-> v, left |-> 0, right |-> 0]

InitTree ==
  /\ PoolParked /\ KernelIdle /\ HarnessIdle /\ WideIdle /\ SearchIdle
  /\ AppsIdle
  /\ height \in -1 .. MaxHeight
  /\ root \in 0 .. MaxRoot
  /\ left_branch \in Branches
  /\ right_branch \in Branches
  /\ tpc = "call" /\ nodes = <<>> /\ queue = <<>> /\ tret = "pending"

\* the height test, the root dict and the deque
GenEnter ==
  /\ tpc = "call"
  /\ IF height <= 0
     THEN /\ tret' = "None"
          /\ tpc' = "done"
          /\ UNCHANGED <<nodes, queue>>
     ELSE /\ nodes' = <<Dict(root)>>
          /\ queue' = <<<<1, 1>>>>
          /\ tpc' = "loop"
          /\ UNCHANGED tret
  /\ UNCHANGED <<height, root, left_branch, right_branch, nonTree>>

\* what one pass of "while queue" does to the dicts and to the deque when
\* nodes above level lim get children
Grow(lim) ==
  LET node  == Head(queue)[1]
      level == Head(queue)[2]
      l     == Len(nodes) + 1
      r     == Len(nodes) + 2
  IN  IF level < lim
      THEN /\ nodes' = [nodes EXCEPT ![node].left = l, ![node].right = r]
                         \o <<Dict(Branch(left_branch, nodes[node].value)),
                              Dict(Branch(right_branch, nodes[node].value))>>
           /\ queue' = Tail(queue) \o <<<<l, level + 1>>, <<r, level + 1>>>>
      ELSE /\ queue' = Tail(queue)
           /\ UNCHANGED nodes

\* variant: the nodes of the last level get children too
GenIter_deep ==
  /\ tpc = "loop" /\ queue # <<>>
  /\ Grow(height + 1)
  /\ UNCHANGED <<height, root, left_branch, right_branch, tpc, tret, nonTree>>
\* one pass of "while queue"
GenIter ==
  /\ tpc = "loop" /\ queue # <<>>
  /\ Grow(height)
  /\ UNCHANGED <<height, root, left_branch, right_branch, tpc, tret, nonTree>>

\* the deque is empty: return tree
GenReturn ==
  /\ tpc = "loop" /\ queue = <<>>
  /\ tret' = "tree"
  /\ tpc' = "done"
  /\ UNCHANGED <<height, root, left_branch, right_branch, nodes, queue, nonTree>>

NextTree == GenEnter \/ GenIter \/ GenReturn

TreeSpec == InitTree /\ [][NextTree]_vars

\* ------------------------------ lab_work_9: CurrencyRatesCRUD
MaxRows == 2       \* ids each table may hand out

Ids == 1 .. MaxRows

LastRowId(n) == [kind |-> "id", id |-> n, ok |-> TRUE]
RowCount(hit) == [kind |-> "bool", id |-> 0, ok |-> hit]
IntegrityError == [kind |-> "exc", id |-> 0, ok |-> FALSE]
Row(n, u, c) == [id |-> n, user_id |-> u, currency_id |-> c]

\* sqlite3.connect and _create_tables: three empty tables.  Foreign keys
\* are enforced only when PRAGMA foreign_keys is ON; a new connection has
\* it OFF and the class never sets it.
InitDb ==
  /\ PoolParked /\ KernelIdle /\ HarnessIdle /\ WideIdle
  /\ SearchIdle /\ TreeIdle /\ LogIdle /\ FirstCall
  /\ foreign_keys = FALSE
  /\ user = {} /\ currency = {} /\ user_currency = {}
  /\ sqlite_sequence = [user |-> 0, currency |-> 0, user_currency |-> 0]
  /\ dbret = [kind |-> "none", id |-> 0, ok |-> FALSE]

\* the child rows ON DELETE CASCADE removes with a parent row
Cascade(col, n) ==
  IF foreign_keys THEN {r \in user_currency : r[col] = n} ELSE {}

create_user ==
  /\ sqlite_sequence.user < MaxRows
  /\ LET n == sqlite_sequence.user + 1
     IN  /\ user' = user \cup {n}
         /\ sqlite_sequence' = [sqlite_sequence EXCEPT !.user = n]
         /\ dbret' = LastRowId(n)
  /\ UNCHANGED <<foreign_keys, currency, user_currency, nonDb>>

create_currency ==
  /\ sqlite_sequence.currency < MaxRows
  /\ LET n == sqlite_sequence.currency + 1
     IN  /\ currency' = currency \cup {n}
         /\ sqlite_sequence' = [sqlite_sequence EXCEPT !.currency = n]
         /\ dbret' = LastRowId(n)
  /\ UNCHANGED <<foreign_keys, user, user_currency, nonDb>>

create_user_currency ==
  /\ sqlite_sequence.user_currency < MaxRows
  /\ \E u \in Ids, c \in Ids :
       IF foreign_keys /\ (u \notin user \/ c \notin currency)
       THEN /\ dbret' = IntegrityError
            /\ UNCHANGED <<user_currency, sqlite_sequence>>
       ELSE LET n == sqlite_sequence.user_currency + 1
            IN  /\ user_currency' = user_currency \cup {Row(n, u, c)}
                /\ sqlite_sequence' =
                     [sqlite_sequence EXCEPT !.user_currency = n]
                /\ dbret' = LastRowId(n)
  /\ UNCHANGED <<foreign_keys, user, currency, nonDb>>

delete_currency ==
  /\ \E c \in Ids :
       /\ currency' = currency \ {c}
       /\ user_currency' = user_currency \ Cascade("currency_id", c)
       /\ dbret' = RowCount(c \in currency)
  /\ UNCHANGED <<foreign_keys, user, sqlite_sequence, nonDb>>

delete_user ==
  /\ \E u \in Ids :
       /\ user' = user \ {u}
       /\ user_currency' = user_currency \ Cascade("user_id", u)
       /\ dbret' = RowCount(u \in user)
  /\ UNCHANGED <<foreign_keys, currency, sqlite_sequence, nonDb>>

delete_user_currency ==
  /\ \E u \in Ids, c \in Ids :
       LET hit == {r \in user_currency : r.user_id = u /\ r.currency_id = c}
       IN  /\ user_currency' = user_currency \ hit
           /\ dbret' = RowCount(hit # {})
  /\ UNCHANGED <<foreign_keys, user, currency, sqlite_sequence, nonDb>>

delete_user_currency_by_id ==
  /\ \E n \in Ids :
       LET hit == {r \in user_currency : r.id = n}
       IN  /\ user_currency' = user_currency \ hit
           /\ dbret' = RowCount(hit # {})
  /\ UNCHANGED <<foreign_keys, user, currency, sqlite_sequence, nonDb>>

NextDb ==
  \/ create_user
  \/ create_currency
  \/ create_user_currency
  \/ delete_currency
  \/ delete_user
  \/ delete_user_currency
  \/ delete_user_currency_by_id

DbSpec == InitDb /\ [][NextDb]_vars

\* ------------------------------ lab_work_7: the logger decorator
MaxArg == 3        \* arguments of the wrapped function are 0 .. MaxArg
MaxLogCalls == 2   \* calls of one wrapped function

\* wrapped functions: one that returns, one that raises an Exception, one
\* that raises outside Exception (sys.exit() raises SystemExit)
Wrapped == {"double", "fail", "quit"}
Returned(v) == [kind |-> "ok", value |-> v, type |-> "none", text |-> ""]
Raised(t, msg) == [kind |-> "exc", value |-> 0, type |-> t, text |-> msg]
Inner(g, x) ==
  IF g = "double" THEN Returned(2 * x)
  ELSE IF g = "fail" THEN Raised("ValueError", "Test error")
  ELSE Raised("SystemExit", "")

\* the exception classes raised here
BaseExceptions == {"ValueError", "SystemExit"}

\* the classes "except Exception" catches, among those raised here
IsException(t) == t \in {"ValueError"}

\* the three messages, without the timestamp
StartLine(g, x) ==
  [level |-> "INFO", what |-> "call", func |-> g, shown |-> x, text |-> ""]
SuccessLine(g, r) ==
  [level |-> "INFO", what |-> "success", func |-> g, shown |-> r.value,
   text |-> ""]
ErrorLine(g, r) ==
  [level |-> "ERROR", what |-> r.type, func |-> g, shown |-> 0,
   text |-> r.text]

\* io.StringIO.write on a closed stream
ClosedFile == Raised("ValueError", "I/O operation on closed file")

InitLog ==
  /\ PoolParked /\ KernelIdle /\ HarnessIdle /\ WideIdle
  /\ SearchIdle /\ TreeIdle /\ DbIdle /\ FirstCall
  /\ inner_func \in Wrapped
  /\ closed \in BOOLEAN
  /\ lpc = "idle" /\ largs = 0 /\ stream = <<>> /\ runs = 0
  /\ delivered = <<>>

Handed(x, r) == [x |-> x, ret |-> r]

\* wrapper up to "try": the start message is written
LogStart ==
  /\ lpc = "idle" /\ Len(delivered) < MaxLogCalls
  /\ \E x \in 0 .. MaxArg :
       /\ largs' = x
       /\ IF closed
          THEN /\ delivered' = Append(delivered, Handed(x, ClosedFile))
               /\ UNCHANGED <<lpc, stream>>
          ELSE /\ stream' = Append(stream, StartLine(inner_func, x))
               /\ lpc' = "try"
               /\ UNCHANGED delivered
  /\ UNCHANGED <<inner_func, closed, runs, nonLog>>

\* the try statement when the except clause catches the classes in catch:
\* inner_func runs, its result or its exception is logged and handed on
TryExcept(caught) ==
  /\ lpc = "try"
  /\ runs' = runs + 1
  /\ LET r == Inner(inner_func, largs)
     IN  /\ stream' =
              IF r.kind = "ok" THEN Append(stream, SuccessLine(inner_func, r))
              ELSE IF r.type \in caught THEN Append(stream, ErrorLine(inner_func, r))
              ELSE stream
         /\ delivered' = Append(delivered, Handed(largs, r))
  /\ lpc' = "idle"
  /\ UNCHANGED <<inner_func, closed, largs, nonLog>>

\* variant: a bare except, which catches every exception
LogTry_bare == TryExcept(BaseExceptions)
LogTry == TryExcept({t \in BaseExceptions : IsException(t)})

NextLog == LogStart \/ LogTry

LogSpec == InitLog /\ [][NextLog]_vars

\* ================================================================ claims
ApplyVal(g, x) == Apply(g, x).value
Calls(bk) == backend = bk
SeqReturned == backend = "integrate" /\ pc = "returned"
ParReturned == backend \in Parallel /\ pc = "returned"

\* nothing can happen any more: the caller is neither before nor inside the
\* submission loop, as_completed has nothing left to yield and cannot finish,
\* and no worker has a work item to take or to complete
Quiescent ==
  /\ pc \notin {"start", "plan", "submit"}
  /\ \A k \in 1 .. Len(fs) : fs[k].state = "FINISHED"
  /\ pc = "collect" => (Finished \ yielded = {} /\ yielded # 1 .. Len(fs))

\* sum over k = 0 .. n-1 of g(lo + k*st) * st, taken from the top index down
RECURSIVE RectSum(_, _, _, _)
RectSum(g, lo, st, n) ==
  IF n = 0 THEN Zero
  ELSE RAdd(RMul(ApplyVal(g, RAdd(lo, RMul(Rat(n - 1), st))), st),
            RectSum(g, lo, st, n - 1))

SeqStep == Norm(b[1] * a[2] - a[1] * b[2], b[2] * a[2] * n_iter)

LeftRectangle ==
  /\ outcome.kind = "ok"
  /\ outcome.value = RectSum(f, a, SeqStep, n_iter)
  /\ Len(evals) = n_iter
  /\ \A k \in 1 .. Len(evals) : evals[k] = RAdd(a, RMul(Rat(k - 1), SeqStep))

\* C1 (as stated): for n_iter >= 1 the sequential integrate returns the
\* left-rectangle sum, evaluates f exactly n_iter times at the left ends of
\* the sub-intervals, and never evaluates f at b
C1_NeverAtB ==
  (SeqReturned /\ n_iter >= 1) =>
     LeftRectangle /\ \A k \in 1 .. Len(evals) : evals[k] # b

\* C1 (amended): as above, but f is evaluated at b exactly when a = b
\* (every sample point is then a = b); for a # b it is never evaluated at b
C1_LeftRectangleSum ==
  (SeqReturned /\ n_iter >= 1) =>
     /\ LeftRectangle
     /\ (a # b => \A k \in 1 .. Len(evals) : evals[k] # b)
     /\ (a = b => \A k \in 1 .. Len(evals) : evals[k] = b)

C1_Witness ==
  SeqReturned /\ n_iter >= 3 /\ a # b /\ f = "square" /\ outcome.value # Zero

\* C2: the sequential integrate with n_iter = 0 raises, returns no value
\* and never evaluates f, also when a = b
C2_ZeroIterRaises ==
  (Calls("integrate") /\ n_iter = 0 /\ pc # "start") =>
     /\ pc = "raised"
     /\ outcome.kind = "exc"
     /\ evals = <<>>

C2_Witness ==
  /\ Calls("integrate") /\ n_iter = 0 /\ a = b
  /\ pc = "raised" /\ outcome.type = "ZeroDivisionError"

\* C3: with n_iter = 0 (and n_jobs >= 1 for the pools) no backend ever
\* returns a number, and the call ends by raising to its caller
ZeroIterCall == n_iter = 0 /\ (backend = "integrate" \/ n_jobs >= 1)

C3_ZeroIterAlwaysFails ==
  ZeroIterCall =>
     /\ pc # "returned" /\ outcome.kind # "ok"
     /\ \A k \in Finished : fs[k].kind = "exc"
     /\ (Quiescent => pc = "raised" /\ outcome.kind = "exc")

C3_Witness ==
  /\ backend \in Parallel /\ n_iter = 0 /\ n_jobs >= 2
  /\ pc = "raised" /\ outcome.type = "ZeroDivisionError"
  /\ yielded # {}

Failed == {k \in 1 .. Len(fs) : fs[k].kind = "exc"}
OverSplit == backend \in Parallel /\ n_jobs >= 1 /\ n_jobs > n_iter

\* C4 (as stated): for n_jobs > n_iter >= 0 the pools do not fail, every
\* partition contributes exactly 0.0 and the call returns 0.0
C4_ZeroPartitionsContributeZero ==
  OverSplit =>
     /\ pc # "raised"
     /\ \A k \in Finished : fs[k].kind = "ok" /\ fs[k].value = Zero
     /\ (pc = "returned" => outcome.value = Zero)

\* C4 (amended): for n_jobs > n_iter >= 0 every partition gets n_iter = 0
\* and raises ZeroDivisionError without evaluating f; the call never returns
\* a value and ends by raising ZeroDivisionError
C4_ZeroPartitionsRaise ==
  OverSplit =>
     /\ pc # "returned" /\ outcome.kind # "ok"
     /\ \A k \in 1 .. Len(fs) : fs[k].n_iter = 0
     /\ \A k \in Finished :
           fs[k].kind = "exc" /\ fs[k].type = "ZeroDivisionError"
           /\ fs[k].evals = <<>>
     /\ (Quiescent => pc = "raised" /\ outcome = Raise("ZeroDivisionError"))

C4_Witness ==
  /\ OverSplit /\ n_iter = 2 /\ n_jobs = 3
  /\ pc = "raised" /\ Finished = 1 .. 3

\* C5: for n_jobs <= 0 the pools raise before any partition is submitted or
\* f is evaluated, and never return a number
C5_NonPositiveJobsRaise ==
  (backend \in Parallel /\ n_jobs <= 0) =>
     /\ fs = <<>> /\ evals = <<>>
     /\ pc \in {"start", "raised"}
     /\ outcome.kind # "ok"
     /\ (pc = "raised" => outcome = Raise("ValueError"))

C5_Witness ==
  backend = "integrate_processed" /\ n_jobs = -1 /\ n_iter >= 1 /\ pc = "raised"

\* sum over k = 0 .. n-1 of g(hi - k*h) * h
RECURSIVE RevSum(_, _, _, _)
RevSum(g, hi, h, n) ==
  IF n = 0 THEN Zero
  ELSE RAdd(RMul(ApplyVal(g, RSub(hi, RMul(Rat(n - 1), h))), h),
            RevSum(g, hi, h, n - 1))

RevStep == Norm(a[1] * b[2] - b[1] * a[2], a[2] * b[2] * n_iter)
DefinedOnSamples ==
  \A k \in 0 .. n_iter - 1 :
     Apply(f, RSub(a, RMul(Rat(k), RevStep))).kind = "ok"
NonNegOn(g, lo) ==
  CASE g = "one"    -> TRUE
    [] g = "square" -> TRUE
    [] g = "ident"  -> RLe(Zero, lo)
    [] g = "recip"  -> RLe(Zero, lo) /\ lo # Zero

\* C6: for a > b and n_iter >= 1 the sequential integrate does not fail and
\* returns -(sum over i of f(a - i*h) * h) with h = (a - b) / n_iter, which
\* is <= 0 whenever f >= 0 on [b, a]
C6_ReversedBounds ==
  (Calls("integrate") /\ ~RLe(a, b) /\ n_iter >= 1 /\ pc # "start"
     /\ DefinedOnSamples) =>
     /\ pc = "returned"
     /\ outcome.value = RNeg(RevSum(f, a, RevStep, n_iter))
     /\ (NonNegOn(f, b) => RLe(outcome.value, Zero))

C6_Witness ==
  /\ SeqReturned /\ ~RLe(a, b) /\ n_iter >= 2
  /\ f = "ident" /\ b = Zero /\ outcome.value[1] < 0

Width == Norm(b[1] * a[2] - a[1] * b[2], b[2] * a[2] * n_jobs)

\* C7: the partitions are n_jobs contiguous sub-intervals of [a, b] of equal
\* width (b - a) / n_jobs: a_0 = a, b_i = a_{i+1}, and the last b_i is b
C7_ContiguousPartitions ==
  (backend \in Parallel /\ n_jobs >= 1) =>
     /\ Len(fs) <= n_jobs
     /\ (pc \in {"collect", "returned"} \/ yielded # {} => Len(fs) = n_jobs)
     /\ (Len(fs) >= 1 => fs[1].a_i = a)
     /\ \A k \in 1 .. Len(fs) - 1 : fs[k].b_i = fs[k + 1].a_i
     /\ \A k \in 1 .. Len(fs) : RSub(fs[k].b_i, fs[k].a_i) = Width
     /\ (Len(fs) = n_jobs => fs[n_jobs].b_i = b)

C7_Witness ==
  backend \in Parallel /\ n_jobs = 3 /\ Len(fs) = 3 /\ a # b /\ pc = "collect"

RECURSIVE EvalsUpTo(_)
EvalsUpTo(k) == IF k = 0 THEN 0 ELSE Len(fs[k].evals) + EvalsUpTo(k - 1)
TotalEvals == EvalsUpTo(Len(fs))

\* C8: every partition gets the budget n_iter // n_jobs; a parallel call
\* evaluates f n_jobs * (n_iter // n_jobs) times in all, never more than
\* n_iter and exactly n_iter only when n_jobs divides n_iter
C8_TruncatedBudget ==
  (backend \in Parallel /\ n_jobs >= 1) =>
     /\ \A k \in 1 .. Len(fs) : fs[k].n_iter = n_iter \div n_jobs
     /\ TotalEvals <= n_jobs * (n_iter \div n_jobs)
     /\ TotalEvals <= n_iter
     /\ (pc = "returned" =>
           /\ TotalEvals = n_jobs * (n_iter \div n_jobs)
           /\ TotalEvals = n_iter - (n_iter % n_jobs)
           /\ (TotalEvals = n_iter <=> n_iter % n_jobs = 0))

C8_Witness ==
  ParReturned /\ n_jobs >= 2 /\ n_iter % n_jobs # 0 /\ TotalEvals < n_iter

Sequential == integrate(f, a, b, n_iter)
Tolerance == <<1, 100>>
Close(x, y) == RLe(RAbs(RSub(x, y)), Tolerance)

\* C9 (as stated): for every f, a, b, n_iter and n_jobs the parallel result
\* differs from the sequential integrate(f, a, b, n_iter) by at most 1e-2
C9_ParallelCloseToSequential ==
  (ParReturned /\ Sequential.kind = "ok") =>
     Close(outcome.value, Sequential.value)

\* C9 (amended): when n_jobs divides n_iter, a parallel call that returns
\* is matched by a sequential call that returns, and the two results differ
\* by at most 1e-2 (in exact arithmetic)
C9_CloseWhenDivisible ==
  (ParReturned /\ n_iter % n_jobs = 0) =>
     /\ Sequential.kind = "ok"
     /\ Close(outcome.value, Sequential.value)

C9_Witness ==
  /\ ParReturned /\ n_jobs >= 2 /\ n_iter % n_jobs = 0
  /\ f = "square" /\ outcome.value # Zero

\* C10: a call of a pool backend never returns a value when some partition
\* raised: it returns only with every partition finished without exception,
\* and once nothing is left to run it has raised the exception of a failed
\* partition
C10_FailureFailsCall ==
  backend \in Parallel =>
     /\ (pc = "returned" =>
           /\ Failed = {}
           /\ Finished = 1 .. n_jobs
           /\ Len(results) = n_jobs)
     /\ (Failed # {} => outcome.kind # "ok")
     /\ (pc = "raised" /\ fs # <<>> =>
           \E k \in Failed \cap yielded : outcome = Raise(fs[k].type))
     /\ (Failed # {} /\ Quiescent => pc = "raised")

C10_Witness ==
  /\ backend \in Parallel /\ pc = "raised" /\ Failed # {}
  /\ results # <<>> /\ n_iter >= n_jobs

\* C11: a pool call returns a value only when all n_jobs partitions have
\* completed: in a returned state no future is pending or running
C11_ReturnsAfterAllComplete ==
  ParReturned =>
     /\ Len(fs) = n_jobs
     /\ \A k \in 1 .. Len(fs) : fs[k].state \notin {"PENDING", "RUNNING"}
     /\ Running = {}
     /\ yielded = 1 .. n_jobs

C11_Witness ==
  ParReturned /\ n_jobs = 3 /\ Cardinality(Finished) = 3

DeliveredFromWorker == backend \in Parallel /\ pc = "raised" /\ fs # <<>>

\* C12 (as stated): when a partition fails, the caller receives a
\* WorkerError that carries the index of the failing partition
C12_WorkerErrorWithIndex ==
  DeliveredFromWorker =>
     /\ outcome.type = "WorkerError"
     /\ "partition_index" \in DOMAIN outcome

\* C12 (amended): when a partition fails, the caller receives the worker's
\* own exception, re-raised unchanged by result() of the one failed future
\* that as_completed yielded; it is not wrapped and names no partition index
C12_OriginalExceptionReraised ==
  DeliveredFromWorker =>
     /\ Cardinality(Failed \cap yielded) = 1
     /\ \A k \in Failed \cap yielded :
           /\ outcome.kind = "exc"
           /\ outcome.type = fs[k].type
           /\ outcome.type = integrate(f, fs[k].a_i, fs[k].b_i, budget).type
     /\ outcome.type # "WorkerError"
     /\ DOMAIN outcome = {"kind", "value", "type"}

C12_Witness ==
  /\ DeliveredFromWorker /\ f = "recip" /\ n_iter >= n_jobs
  /\ Cardinality(Failed) = 1 /\ outcome.type = "ZeroDivisionError"

\* the value of the call as a function of its arguments alone: the sum over
\* the partitions p = 0 .. n_jobs-1 of the rectangle sum of partition p
RECURSIVE PartitionSums(_)
PartitionSums(p) ==
  IF p = 0 THEN Zero
  ELSE RAdd(PartitionSums(p - 1),
            RectSum(f, RAdd(a, RMul(Rat(p - 1), Width)),
                    Norm(Width[1], Width[2] * (n_iter \div n_jobs)),
                    n_iter \div n_jobs))

Count(seq, v) == Cardinality({j \in 1 .. Len(seq) : seq[j] = v})
PartialValues == [k \in 1 .. Len(fs) |-> fs[k].value]

\* C13: the value a pool call returns is the same for every completion
\* order: it is the sum of the n_jobs partial values, whatever the order in
\* which as_completed delivered them
C13_OrderIndependentSum ==
  ParReturned =>
     /\ outcome.value = PartitionSums(n_jobs)
     /\ Len(results) = n_jobs
     /\ \A k \in 1 .. n_jobs :
           Count(results, fs[k].value) = Count(PartialValues, fs[k].value)

C13_Witness ==
  /\ ParReturned /\ n_jobs = 3
  /\ results[1] = fs[3].value /\ results[3] = fs[1].value
  /\ fs[1].value # fs[3].value

\* C14: in a pool call that returns, every partition was submitted once,
\* run once and counted once: futures only move PENDING -> RUNNING ->
\* FINISHED and never change afterwards, every pass of the collection loop
\* takes a future not taken before and adds its one value
C14_StepOnce ==
  /\ Len(fs') >= Len(fs)
  /\ fs' # <<>> => Len(fs') <= n_jobs
  /\ \A k \in 1 .. Len(fs) :
        /\ fs'[k].a_i = fs[k].a_i /\ fs'[k].b_i = fs[k].b_i
        /\ fs[k].state = "RUNNING" => fs'[k].state # "PENDING"
        /\ fs[k].state = "FINISHED" => fs'[k] = fs[k]
  /\ yielded \subseteq yielded'
  /\ Len(results') - Len(results) \in {0, 1}
  /\ Len(results') > Len(results) =>
        \E k \in yielded' \ yielded :
           yielded' = yielded \cup {k} /\ results' = Append(results, fs[k].value)

C14_AllOnce ==
  ParReturned =>
     /\ Len(fs) = n_jobs
     /\ \A j, k \in 1 .. n_jobs : j # k /\ a # b => fs[j].a_i # fs[k].a_i
     /\ \A k \in 1 .. n_jobs :
           fs[k].state = "FINISHED" /\ Len(fs[k].evals) = budget
     /\ Len(results) = n_jobs
     /\ Cardinality(yielded) = n_jobs

C14_ExactlyOnce ==
  [](C14_AllOnce) /\ [][C14_StepOnce]_vars

C14_Witness ==
  /\ ParReturned /\ n_jobs = 2 /\ a # b /\ budget = 2
  /\ results[1] = fs[2].value

\* C15: the sequential integrate is deterministic and keeps no state from
\* one call to the next: successive calls with the same arguments deliver
\* the same result (or the same exception), every call starts from a fresh
\* accumulator, and no call changes its arguments
C15_SameResultEveryCall ==
  /\ \A j \in 1 .. Len(kret) : kret[j] = kret[1]
  /\ (kpc = "loop" /\ ki = 0 => kacc = Zero /\ kpts = <<>>)
  /\ (kpc = "done" =>
        /\ Len(kret) = MaxCalls
        /\ kret[1].kind = integrate(f, a, b, n_iter).kind
        /\ kret[1].value = integrate(f, a, b, n_iter).value)

C15_Deterministic ==
  [](C15_SameResultEveryCall) /\ [][UNCHANGED <<f, a, b, n_iter>>]_vars

C15_Witness ==
  /\ kpc = "done" /\ Len(kret) >= 2 /\ n_iter >= 2
  /\ kret[2].kind = "ok" /\ kret[2].value # Zero

\* ---------------------------------------------------------------- C16
HarnessOver == hpc \in {"done", "raised"}
RanConfig(k) ==
  \E c \in 1 .. Len(called) : called[c].n_jobs = Sweep(harness)[k]
FailedCalls == {c \in 1 .. Len(called) : ~called[c].ok}

\* C16: when the backend call of one configuration fails, the harness
\* still runs every remaining configuration of its sweep, so a harness
\* that is over has called the backend for each entry of its sweep list
\* and a failed call never ends it with an exception.
C16_FailureDoesNotAbortSweep ==
  (HarnessOver /\ FailedCalls # {}) =>
     /\ hpc = "done"
     /\ \A k \in 1 .. Len(Sweep(harness)) : RanConfig(k)

\* ---------------------------------------------------------------- C17
\* p * q as a wide number, for p, q with p \div 10^4 * q below 2^31
WProd(p, q) ==
  LET u == (p \div (10 ^ 4)) * q
  IN  WAdd(<<u \div 100, (u % 100) * (10 ^ 4)>>, (p % (10 ^ 4)) * q)

PolyReturned == wpc = "done" /\ wret.kind = "ok" /\ n_iter = TestIter

\* 6 n^2 v = (n - 1)(2n - 1), with v = wret.value in units of 10^-12
ExactPolyValue ==
  WTimes(wret.value, 6)
    = WProd((n_iter - 1) * (2 * n_iter - 1),
            (Micro \div n_iter) * (Micro \div n_iter))

\* C17: integrate(x -> x^2, 0, 1, n_iter=10000) returns exactly
\* (n-1)(2n-1)/(6 n^2), which is within 1e-3 of 0.333, within 0.0005 of
\* 1/3, and rounds to 0.333 at three decimals; while the loop runs, six
\* times the accumulator is (i-1) i (2i-1) / n^3.
C17_PolynomialValue ==
  /\ wpc = "loop" /\ wi >= 1 =>
        WTimes(wacc, 6) = WProd((wi - 1) * wi, 2 * wi - 1)
  /\ PolyReturned =>
        /\ ExactPolyValue
        /\ WLe(<<332000, 0>>, wret.value) /\ WLe(wret.value, <<334000, 0>>)
        /\ WLe(<<998500, 0>>, WTimes(wret.value, 3))
        /\ WLe(WTimes(wret.value, 3), <<1001500, 0>>)
        /\ WLe(<<332500, 1>>, wret.value) /\ WLe(wret.value, <<333499, 999999>>)

C17_Witness == PolyReturned /\ wi = TestIter /\ wret.value = <<333283, 335000>>

\* ---------------------------------------------------------------- C19
RECURSIVE Log2Floor(_)
Log2Floor(n) == IF n <= 1 THEN 0 ELSE 1 + Log2Floor(n \div 2)

Elements(s) == {s[k] : k \in 1 .. Len(s)}
MaxAttempts(s) == IF s = <<>> THEN 0 ELSE Log2Floor(Len(s)) + 1
BinaryCall == method = "binary"
BinaryOver == BinaryCall /\ gpc = "done"

C19_Result ==
  /\ BinaryCall => attempts <= MaxAttempts(passed)
  /\ BinaryOver /\ number \in Elements(passed) =>
        /\ gret = Ok(<<number, attempts>>)
        /\ 1 <= attempts /\ attempts <= Log2Floor(Len(passed)) + 1
  /\ BinaryOver /\ number \notin Elements(passed) =>
        gret = Raise("ValueError")
  /\ method \notin Supported /\ gpc = "done" =>
        /\ gret = Raise("ValueError")
        /\ numbers_list = passed /\ attempts = 0

\* every pass of the binary loop counts one attempt and, unless it returns,
\* narrows the window; a call with an unsupported method never writes the
\* list
C19_Step ==
  /\ gpc = "binary" /\ gpc' = "binary" =>
        /\ attempts' = attempts + 1
        /\ right' - left' < right - left
  /\ gpc = "binary" => gpc' \in {"binary", "done"}
  /\ method \notin Supported => numbers_list' = numbers_list

\* C19: guess_number(target, numbers, 'binary') terminates on every list,
\* sorted or not (each pass adds one attempt and attempts never exceed
\* floor(log2(len)) + 1); it returns (target, attempts) with
\* 1 <= attempts <= floor(log2(len)) + 1 if target is in the list and
\* raises ValueError otherwise, the empty list included; an unsupported
\* method raises ValueError with the list untouched.
C19_BinarySearch == [](C19_Result) /\ [][C19_Step]_vars

C19_Witness ==
  /\ BinaryOver /\ passed # Sort(passed) /\ Len(passed) = MaxLen
  /\ gret = Ok(<<number, MaxAttempts(passed)>>)

\* ---------------------------------------------------------------- C20
\* the dicts reached from the returned tree in lvl - 1 steps down
RECURSIVE AtLevel(_)
AtLevel(lvl) ==
  IF lvl <= 1 THEN {1}
  ELSE UNION {{nodes[p].left, nodes[p].right} \ {0} : p \in AtLevel(lvl - 1)}

TreeReturned == tpc = "done" /\ height >= 1

\* what is still to do: the deque plus two entries per missing dict
TreeWork == Len(queue) + 2 * ((2 ^ height - 1) - Len(nodes))

C20_Shape ==
  /\ tpc = "done" /\ height <= 0 => tret = "None" /\ nodes = <<>>
  /\ TreeReturned =>
        /\ tret = "tree"
        /\ Len(nodes) = 2 ^ height - 1
        /\ nodes[1].value = root
        /\ \A lvl \in 1 .. height :
              /\ Cardinality(AtLevel(lvl)) = 2 ^ (lvl - 1)
              /\ \A p \in AtLevel(lvl) :
                    IF lvl < height
                    THEN /\ nodes[p].left # 0 /\ nodes[p].right # 0
                         /\ nodes[nodes[p].left].value
                              = Branch(left_branch, nodes[p].value)
                         /\ nodes[nodes[p].right].value
                              = Branch(right_branch, nodes[p].value)
                    ELSE nodes[p].left = 0 /\ nodes[p].right = 0
        /\ UNION {AtLevel(lvl) : lvl \in 1 .. height} = 1 .. Len(nodes)
  /\ tpc = "loop" => TreeWork >= 0

\* every pass of the loop leaves less to do
C20_Step == tpc = "loop" /\ tpc' = "loop" => TreeWork' < TreeWork

\* C20: gen_bin_tree returns None for height <= 0; for height h >= 1 it
\* returns a complete binary tree of 2^h - 1 nodes whose nodes above level
\* h have children valued left_branch(value) and right_branch(value) and
\* whose nodes at level h have left = right = None; the breadth-first loop
\* terminates (each pass lowers a measure that never goes below zero).
C20_CompleteTree == [](C20_Shape) /\ [][C20_Step]_vars

C20_Witness ==
  /\ TreeReturned /\ height = MaxHeight /\ tret = "tree"
  /\ Len(nodes) = 2 ^ MaxHeight - 1
  /\ left_branch = "square" /\ right_branch = "two_plus_square"

\* ---------------------------------------------------------------- C21
\* C21: deleting a currency or a user cascades: after the delete returns
\* True no user_currency row refers to the deleted id (so that no
\* subscription is ever left without its user or its currency).
\* a delete that returned True left no row referring to the deleted id
DeleteCascaded ==
  /\ \A c \in currency \ currency' :
        dbret'.ok => \A r \in user_currency' : r.currency_id # c
  /\ \A u \in user \ user' :
        dbret'.ok => \A r \in user_currency' : r.user_id # u

C21_DeleteCascades == [][DeleteCascaded]_vars

\* ---------------------------------------------------------------- C22
\* what the calls in d have written to an open stream if every call wrote
\* its start message and then its success or its ERROR message
RECURSIVE TwoLinesEach(_)
TwoLinesEach(d) ==
  IF d = <<>> THEN <<>>
  ELSE <<StartLine(inner_func, Head(d).x),
         IF Head(d).ret.kind = "ok" THEN SuccessLine(inner_func, Head(d).ret)
         ELSE ErrorLine(inner_func, Head(d).ret)>> \o TwoLinesEach(Tail(d))

\* the same when an exception outside Exception leaves only the start line
RECURSIVE LinesOf(_)
LinesOf(d) ==
  IF d = <<>> THEN <<>>
  ELSE (<<StartLine(inner_func, Head(d).x)>>
          \o (IF Head(d).ret.kind = "ok"
                THEN <<SuccessLine(inner_func, Head(d).ret)>>
              ELSE IF IsException(Head(d).ret.type)
                THEN <<ErrorLine(inner_func, Head(d).ret)>>
              ELSE <<>>))
       \o LinesOf(Tail(d))

Pending == IF lpc = "try" THEN <<StartLine(inner_func, largs)>> ELSE <<>>
Unchanged == \A k \in 1 .. Len(delivered) :
               delivered[k].ret = Inner(inner_func, delivered[k].x)

\* C22 as stated: every call writes the start message before the wrapped
\* function runs, then exactly one of the success message (result
\* returned unchanged) or the ERROR message (same exception re-raised).
C22_StartThenSuccessOrError ==
  /\ stream = TwoLinesEach(delivered) \o Pending
  /\ Unchanged
  /\ lpc = "try" => runs = Len(delivered)

\* C22 amended: on an open stream every call writes the start message
\* before the wrapped function runs; a result is logged and returned
\* unchanged, an exception of class Exception is logged as ERROR and
\* re-raised, and an exception outside Exception (SystemExit) is re-raised
\* with nothing logged after the start message.  On a closed stream the
\* call raises ValueError and the wrapped function never runs.
C22_LoggedCall ==
  IF closed
  THEN /\ stream = <<>> /\ runs = 0 /\ lpc = "idle"
       /\ \A k \in 1 .. Len(delivered) : delivered[k].ret = ClosedFile
  ELSE /\ stream = LinesOf(delivered) \o Pending
       /\ Unchanged
       /\ runs = Len(delivered)

C22_Witness ==
  /\ ~closed /\ inner_func = "quit" /\ Len(delivered) = MaxLogCalls
  /\ lpc = "idle" /\ Len(stream) = MaxLogCalls

\* ---------------------------------------------------------------- C23
Blocked == pc = "collect" /\ yielded # 1 .. Len(fs)

\* C23: integrate_nogil_threaded_sin pushes all n_jobs partitions to the
\* pool before the caller blocks on any result.
C23_AllPushedBeforeBlocking == Blocked => Len(fs) = n_jobs

\* ---------------------------------------------------------------- C29
RECURSIVE FutureSum(_)
FutureSum(k) == IF k = 0 THEN Zero ELSE RAdd(FutureSum(k - 1), fs[k].value)

Unfinished == {k \in 1 .. Len(fs) : fs[k].state # "FINISHED"}

\* C29: integrate_nogil_threaded_sin waits for partitions 0..i before it
\* submits partition i+1, so at most one partition is ever running; the
\* value returned is the sum of all n_jobs partial results, each counted
\* once; if partition i fails, partitions i+1 .. n_jobs-1 are never
\* submitted.
C29_CollectsInsideLoop ==
  /\ Cardinality(Running) <= 1
  /\ Unfinished \subseteq {Len(fs)}
  /\ pc = "submit" => \A k \in 1 .. Len(fs) : fs[k].kind = "ok"
  /\ pc = "returned" =>
        /\ Len(fs) = n_jobs /\ Len(results) = n_jobs
        /\ outcome = Ok(FutureSum(n_jobs))
  /\ pc = "raised" /\ fs # <<>> =>
        /\ fs[Len(fs)].kind = "exc"
        /\ outcome = Raise(fs[Len(fs)].type)
        /\ \A k \in 1 .. Len(fs) - 1 : fs[k].kind = "ok"

C29_Witness ==
  /\ pc = "returned" /\ n_jobs = MaxJobs
  /\ fs[1].value # fs[2].value

\* ---------------------------------------------------------------- C24
Threaded == backend = "integrate_threaded"
Awaited == yielded # {} \/ results # <<>> \/ pc \in {"collect", "returned"}

CallOver == pc \in {"returned", "raised"}

\* C25 as stated: once the evaluation of f in some partition never
\* returns, the parallel call never comes back to its caller, whether the
\* other partitions complete or raise.
C25_HungCallNeverEnds == HungPartitions # {} => ~CallOver

\* C25: a partition whose evaluation of f never returns is never timed out
\* or cancelled and the call never returns a value; the call ends only when
\* another partition raises, and then with that partition's exception.
C25_HungCall ==
  HungPartitions # {} =>
     /\ \A k \in HungPartitions : fs[k].state \in {"PENDING", "RUNNING"}
     /\ pc # "returned"
     /\ pc = "raised" =>
           \E j \in yielded \ HungPartitions :
              /\ fs[j].kind = "exc"
              /\ outcome = Raise(fs[j].type)

\* every other partition has completed normally and been collected: the
\* call waits for the hung partition
C25_Witness ==
  /\ pc = "collect" /\ Len(fs) = n_jobs
  /\ Cardinality(HungPartitions) = 1 /\ n_jobs = MaxJobs
  /\ yielded = (1 .. Len(fs)) \ HungPartitions
  /\ \A k \in HungPartitions : fs[k].state = "RUNNING"

\* ---------------------------------------------------------------- C26
\* what the caller handed to the pool with future k
Task(fut) == <<fut.a_i, fut.b_i, fut.n_iter>>
\* the futures a step has written
Written == {k \in 1 .. Len(fs) : fs'[k] # fs[k]}

C26_Step ==
  Threaded =>
     /\ UNCHANGED args
     /\ \A k \in 1 .. Len(fs) : Task(fs'[k]) = Task(fs[k])
     /\ Cardinality(Written) <= 1
     /\ Written # {} =>
           UNCHANGED <<pc, executor, budget, step, i, yielded, results,
                       outcome>>
     /\ Len(fs') > Len(fs) => Written = {}

\* C26: during a thread-pool call f, a, b, n_iter, n_jobs and the bounds
\* and budget of every submitted partition never change; a step of a
\* worker writes its own future and nothing else, neither another future
\* nor anything the caller holds.
C26_WorkersOnlyRead == [][C26_Step]_vars

\* one worker has completed its future while another is running
C26_Witness ==
  /\ Threaded /\ pc = "collect" /\ a # b
  /\ \E j, k \in 1 .. Len(fs) :
        /\ fs[j].state = "FINISHED" /\ fs[j].kind = "ok"
        /\ fs[k].state = "RUNNING"

\* ---------------------------------------------------------------- C27
SpeedupLines == {j \in 1 .. Len(printed) : printed[j].kind = "speedup"}
Rank(j) == Cardinality({m \in SpeedupLines : m <= j})
\* the two timed calls a speedup line follows and the times printed for them
Numerator(j) == called[2 * Rank(j) - 1]
Denominator(j) == called[2 * Rank(j)]
NumTime(j) == printed[IF harness = "benchmark" THEN j - 3 ELSE j - 2].value
DenTime(j) == printed[j - 1].value

\* C27 as stated: every speedup line divides the time of the Sequential
\* baseline by the time of the other backend.
C27_SpeedupOverSequential ==
  \A j \in SpeedupLines :
     /\ Numerator(j).backend = "integrate"
     /\ printed[j].value = RDiv(NumTime(j), DenTime(j)).value

\* C27: every speedup line divides the time of the first call of its pair
\* by the time of the second: threads by processes in
\* compare_threads_processes, the Python backend by its Cython counterpart
\* in benchmark; the Sequential baseline is the numerator in section 1 of
\* benchmark only.
C27_SpeedupOfPair ==
  \A j \in SpeedupLines :
     /\ DenTime(j) # Zero
     /\ printed[j].value = RDiv(NumTime(j), DenTime(j)).value
     /\ Numerator(j).ok /\ Denominator(j).ok
     /\ Numerator(j).n_jobs = printed[j].n_jobs
     /\ Denominator(j).n_jobs = printed[j].n_jobs
     /\ IF harness = "benchmark"
          THEN /\ Numerator(j).backend = Sections[Rank(j)][1]
               /\ Denominator(j).backend = Sections[Rank(j)][2]
          ELSE /\ Numerator(j).backend = "integrate_threaded"
               /\ Denominator(j).backend = "integrate_processed"
     /\ Numerator(j).backend = "integrate"
           <=> (harness = "benchmark" /\ Rank(j) = 1)

\* benchmark has printed its three figures, the second from a threaded
\* time that differs from the sequential time
C27_Witness ==
  /\ harness = "benchmark" /\ hpc = "done"
  /\ Cardinality(SpeedupLines) = Len(Sections)
  /\ printed[3].value # printed[9].value

\* ---------------------------------------------------------------- C28
\* the sequential integrate over the n_jobs * (n_iter // n_jobs) rectangles
\* the partitions cover
Trimmed == integrate(f, a, b, n_jobs * (n_iter \div n_jobs))
\* a + p * (b - a) / (n_jobs * m), with m = n_iter // n_jobs
GridPoint(p) ==
  RAdd(a, Norm(p * (b[1] * a[2] - a[1] * b[2]),
               b[2] * a[2] * n_jobs * (n_iter \div n_jobs)))

\* C28: for n_jobs >= 1 and n_iter >= n_jobs a pool call delivers exactly
\* what the sequential integrate delivers for
\* n_iter = n_jobs * (n_iter // n_jobs): partition i evaluates f at the grid
\* points i*m .. i*m + m - 1, the call returns the same value or raises the
\* same exception, and when n_jobs divides n_iter this is integrate(f, a,
\* b, n_iter) itself.
C28_ParallelEqualsTrimmedSequential ==
  (backend \in Parallel /\ n_jobs >= 1 /\ n_iter >= n_jobs) =>
     /\ \A k \in Finished : \A j \in 1 .. Len(fs[k].evals) :
           fs[k].evals[j] = GridPoint((k - 1) * (n_iter \div n_jobs) + j - 1)
     /\ \A k \in Finished :
           fs[k].kind = "ok" => Len(fs[k].evals) = n_iter \div n_jobs
     /\ pc = "returned" =>
           /\ Trimmed.kind = "ok"
           /\ outcome.value = Trimmed.value
           /\ n_iter % n_jobs = 0 => outcome.value = Sequential.value
     /\ pc = "raised" =>
           /\ Trimmed.kind = "exc"
           /\ outcome.type = Trimmed.type

\* n_jobs does not divide n_iter: the call returns the value of the
\* trimmed sequential sum, which is not that of integrate(f, a, b, n_iter)
C28_Witness ==
  /\ ParReturned /\ n_jobs = MaxJobs /\ n_iter = MaxJobs + 1
  /\ f = "square" /\ a # b
  /\ outcome.value = Trimmed.value
  /\ outcome.value # Sequential.value

\* ---------------------------------------------------------------- C30
\* the call raised out of the collection loop
PartitionFailed == backend \in Parallel /\ pc = "raised" /\ fs # <<>>

C30_State ==
  backend \in Parallel =>
     /\ \A k \in 1 .. Len(fs) :
           fs[k].state \in {"PENDING", "RUNNING", "FINISHED"}
     /\ PartitionFailed =>
           /\ executor.max_workers = n_jobs
           /\ Len(results) = Cardinality(yielded) - 1
           /\ \E j \in yielded :
                 /\ fs[j].kind = "exc"
                 /\ outcome = Raise(fs[j].type)
                 /\ \A m \in yielded \ {j} : fs[m].kind = "ok"
     /\ pc = "returned" => executor.max_workers = n_jobs

C30_Step ==
  backend \in Parallel =>
     /\ executor # NoExecutor => executor' = executor
     /\ CallOver => UNCHANGED <<pc, outcome, results, yielded>>
     /\ \A k \in 1 .. Len(fs) :
           fs[k].state = "PENDING" => fs'[k].state \in {"PENDING", "RUNNING"}

\* C30: a pool call raises with the exception of the first failed future
\* as_completed yields, having collected only the futures yielded before
\* it; no future is ever cancelled and the executor is never shut down or
\* replaced, so the other partitions stay pending or running on the pool
\* and go on after the call has raised or returned.
C30_FailureLeavesPoolRunning == [](C30_State) /\ [][C30_Step]_vars

\* the call has raised while one partition runs and another still waits
C30_Witness ==
  /\ PartitionFailed /\ n_jobs = MaxJobs
  /\ \E j, k \in 1 .. Len(fs) :
        fs[j].state = "PENDING" /\ fs[k].state = "RUNNING"
====
